---- MODULE Spec2Model ----
(***************************************************************************)
(* Model of the entity-resolution and upsert-merge logic of the seeding    *)
(* scripts (scripts/seed_games_nba.py, scripts/seed_boxscores_nba.py,      *)
(* scripts/seed-nba-then-crossref-bdl.py, scripts/sync-game-provider-      *)
(* mappings.py).  The database tables are sets of rows; a nullable column  *)
(* holds Null (the empty tuple) or a one-element tuple <<v>>.              *)
(***************************************************************************)
EXTENDS Integers, Sequences, FiniteSets, TLC

VARIABLES
    games,            \* table games: set of rows, unique on game_id
    player_game_stats,\* table player_game_stats: rows unique on (game_id, player_id)
    team_game_stats,  \* table team_game_stats: rows unique on (game_id, team_id)
    players,          \* table players: rows unique on player_id
    provider_id_map,  \* table provider_id_map: rows unique on (entity_type, provider, provider_id)
    minutes_io,       \* the last parse_minutes_to_decimal call: argument and result
    nba_boxscore,     \* the box score NBA Stats serves for a Final game: its player rows
    proc,             \* the invocations in progress: position and local values of each
    last              \* the last operation: its name, arguments, result and the rows it saw

vars == <<games, player_game_stats, team_game_stats, players, provider_id_map,
          minutes_io, nba_boxscore, proc, last>>

----------------------------------------------------------------------------
(* Nullable values *)

Null == <<>>

Val(x) == <<x>>

Coalesce(a, b) == IF a # Null THEN a ELSE b

----------------------------------------------------------------------------
(* Bounds and input domains *)

\* largest points value of one player line, and largest stored score at start
MaxPoints == 1

\* number of player lines of an upstream box score
MaxStats == 2

GameIds == {"0022500001"}

KnownStatuses == {"Final", "Scheduled", "InProgress", "Postponed", "Cancelled"}

\* GAME_STATUS_TEXT values of the scoreboard that are outside the known set
OtherStatuses == {"Halftime"}

StatusVals == {Null} \cup {Val(s) : s \in KnownStatuses \cup OtherStatuses}

ScoreVals == {Null} \cup {Val(n) : n \in 0..MaxPoints}

\* internal team ids of the one scheduled game (home, away)
HomeTeam == "BOS"

AwayTeam == "MIA"

\* the Eastern-time calendar date of the scheduled game's start_time
GameDate == "2025-10-21"

\* a second scheduled game of the same teams, one day later
LaterGameId == "0022500002"

NextDate == "2025-10-22"

\* the Eastern date of the scoreboard a game id is listed on
DateOf(gid) == IF gid = LaterGameId THEN NextDate ELSE GameDate

----------------------------------------------------------------------------
(* Table games *)

GameRow(gid) == CHOOSE r \in games : r.game_id = gid

GameExists(gid) == \E r \in games : r.game_id = gid

\* status = CASE ... END of UPSERT_GAME_SQL
MergeStatusAlwaysExcluded(stored, excluded) == excluded

MergeStatusForward(stored, excluded) ==
    IF stored = Null \/ stored[1] \notin KnownStatuses THEN excluded
    ELSE IF stored = Val("Scheduled") /\ excluded \in {Val("InProgress"), Val("Final")}
    THEN excluded
    ELSE IF stored = Val("InProgress") /\ excluded = Val("Final") THEN excluded
    ELSE stored

MergeStatus(stored, excluded) ==
    IF stored = Null \/ stored[1] \notin KnownStatuses THEN excluded
    ELSE IF stored = Val("Scheduled") /\ excluded = Val("Final") THEN excluded
    ELSE IF stored = Val("InProgress") /\ excluded = Val("Final") THEN excluded
    ELSE stored

\* home_score / away_score = CASE ... END of UPSERT_GAME_SQL
MergeScoreAlwaysExcluded(stored, excluded) == excluded

MergeScore(stored, excluded) ==
    IF stored = Null THEN excluded
    ELSE IF excluded # Null THEN excluded
    ELSE stored

\* insert into games ... on conflict (game_id) do update set ... (UPSERT_GAME_SQL)
UpsertGameSql(rows, g) ==
    IF \E r \in rows : r.game_id = g.game_id
    THEN {IF r.game_id # g.game_id THEN r
          ELSE [game_id |-> r.game_id,
                start_date |-> g.start_date,
                status |-> MergeStatus(r.status, g.status),
                home_team_id |-> g.home_team_id,
                away_team_id |-> g.away_team_id,
                home_score |-> MergeScore(r.home_score, g.home_score),
                away_score |-> MergeScore(r.away_score, g.away_score)] : r \in rows}
    ELSE rows \cup {g}

\* the row a NormalizedGame is written as
IncomingGame(gid, status, hs, as) ==
    [game_id |-> gid, start_date |-> GameDate, status |-> status,
     home_team_id |-> HomeTeam, away_team_id |-> AwayTeam,
     home_score |-> hs, away_score |-> as]

\* the stored status of gid is 'Final'
IsFinal(gid) == GameExists(gid) /\ GameRow(gid).status = Val("Final")

\* the stored scores of gid are both non-null
HasScores(gid) ==
    GameExists(gid) /\ GameRow(gid).home_score # Null /\ GameRow(gid).away_score # Null

\* seed_games_nba.upsert_game
UpsertGame(gid, status, hs, as) ==
    /\ games' = UpsertGameSql(games, IncomingGame(gid, status, hs, as))
    /\ last' = [op |-> "upsert_game", game_id |-> gid, status |-> status,
                was_final |-> IsFinal(gid)]
    /\ UNCHANGED <<player_game_stats, team_game_stats, players, provider_id_map, minutes_io, nba_boxscore, proc>>

----------------------------------------------------------------------------
(* Table provider_id_map *)

MapRow(etype, internal, provider, pid, meta) ==
    [entity_type |-> etype, internal_id |-> internal, provider |-> provider,
     provider_id |-> pid, metadata |-> meta]

SameKey(r, m) ==
    /\ r.entity_type = m.entity_type
    /\ r.provider = m.provider
    /\ r.provider_id = m.provider_id

\* insert into provider_id_map ... on conflict (entity_type, provider, provider_id)
\* do update set internal_id = excluded.internal_id, metadata = excluded.metadata
UpsertMapNoConflictClause(rows, m) == rows \cup {m}

UpsertMap(rows, m) ==
    IF \E r \in rows : SameKey(r, m)
    THEN {IF SameKey(r, m) THEN m ELSE r : r \in rows}
    ELSE rows \cup {m}

\* insert into provider_id_map ... on conflict (...) do nothing
InsertMapDoNothing(rows, m) ==
    IF \E r \in rows : SameKey(r, m) THEN rows ELSE rows \cup {m}

\* select internal_id from provider_id_map where entity_type = .. and provider = ..
\* and provider_id = .. limit 1
LookupMap(rows, etype, provider, pid) ==
    IF \E r \in rows : r.entity_type = etype /\ r.provider = provider /\ r.provider_id = pid
    THEN Val((CHOOSE r \in rows : r.entity_type = etype /\ r.provider = provider
                                     /\ r.provider_id = pid).internal_id)
    ELSE Null

\* NBA Stats team ids of the scheduled game's home and away team
HomeTeamNba == "1610612738"

AwayTeamNba == "1610612748"

TeamMapRows ==
    {MapRow("team", HomeTeam, "nba", HomeTeamNba, "teams"),
     MapRow("team", AwayTeam, "nba", AwayTeamNba, "teams")}

\* resolve_team_mapping: the dict provider_id -> internal_id, here as a lookup
TeamMapGet(rows, team_pid) == LookupMap(rows, "team", "nba", team_pid)

----------------------------------------------------------------------------
(* Names: a name is a sequence of one-character strings *)

IsSpace(c) == c = " "

Lower(c) == IF c = "A" THEN "a" ELSE IF c = "B" THEN "b" ELSE c

\* str.split(): the maximal runs of non-space characters
RECURSIVE SplitFrom(_, _, _)
SplitFrom(s, cur, acc) ==
    IF s = <<>> THEN (IF cur = <<>> THEN acc ELSE Append(acc, cur))
    ELSE IF IsSpace(Head(s))
         THEN SplitFrom(Tail(s), <<>>, IF cur = <<>> THEN acc ELSE Append(acc, cur))
         ELSE SplitFrom(Tail(s), Append(cur, Head(s)), acc)

Split(s) == SplitFrom(s, <<>>, <<>>)

\* first_name = parts[0] if parts else None
FirstNameOf(name) == IF Len(Split(name)) > 0 THEN Val(Split(name)[1]) ELSE Null

\* last_name = parts[-1] if len(parts) > 1 else None
LastNameOf(name) ==
    IF Len(Split(name)) > 1 THEN Val(Split(name)[Len(Split(name))]) ELSE Null

----------------------------------------------------------------------------
(* Tables players and player_game_stats *)

PlayerRow(pid, full, first, lastn) ==
    [player_id |-> pid, full_name |-> full, first_name |-> first, last_name |-> lastn]

PlayerExists(rows, pid) == \E r \in rows : r.player_id = pid

\* UPSERT_PLAYER_SQL of seed_games_nba: on conflict (player_id) do nothing
InsertPlayerDoNothing(rows, p) ==
    IF PlayerExists(rows, p.player_id) THEN rows ELSE rows \cup {p}

\* insert into players ... on conflict (player_id) do update set full_name = ...
UpsertPlayer(rows, p) ==
    IF PlayerExists(rows, p.player_id)
    THEN {IF r.player_id = p.player_id THEN p ELSE r : r \in rows}
    ELSE rows \cup {p}

\* UPSERT_BOX_SCORE_SQL: on conflict (game_id, player_id) do update set ...
UpsertBoxScoreSql(rows, st) ==
    LET row == [game_id |-> st.game_id, player_id |-> st.player_id,
                team_id |-> st.team_internal_id, points |-> st.points,
                dnp_reason |-> st.dnp_reason]
    IN IF \E r \in rows : r.game_id = st.game_id /\ r.player_id = st.player_id
       THEN {IF r.game_id = st.game_id /\ r.player_id = st.player_id THEN row ELSE r
                : r \in rows}
       ELSE rows \cup {row}

----------------------------------------------------------------------------
(* seed_games_nba: box score of a game *)

\* the state of the database as one record, threaded through a unit of work
Db(g, pgs, tgs, pl, pm) ==
    [games |-> g, player_game_stats |-> pgs, team_game_stats |-> tgs,
     players |-> pl, provider_id_map |-> pm]

CurrentDb == Db(games, player_game_stats, team_game_stats, players, provider_id_map)

\* seed_games_nba.resolve_player_internal_id: <<database, returned id>>
ResolvePlayerGames(db, provider_player_id, player_name) ==
    LET row == LookupMap(db.provider_id_map, "player", "nba", provider_player_id)
    IN IF row # Null THEN <<db, row[1]>>
       ELSE <<[db EXCEPT
                 !.players = InsertPlayerDoNothing(@,
                     PlayerRow(provider_player_id, player_name,
                               FirstNameOf(player_name), LastNameOf(player_name))),
                 !.provider_id_map = UpsertMap(@,
                     MapRow("player", provider_player_id, "nba", provider_player_id,
                            "seeded_from_boxscore"))],
              provider_player_id>>

\* normalize_player_stat over the rows of fetch_boxscore, in order:
\* <<database, list of NormalizedPlayerStat>>; the rows of BoxScores carry no
\* COMMENT, so dnp_reason is None
RECURSIVE NormalizeStats(_, _, _, _)
NormalizeStats(db, gid, raw, acc) ==
    IF raw = <<>> THEN <<db, acc>>
    ELSE LET st == Head(raw)
             team == TeamMapGet(db.provider_id_map, st.team_id)
         IN IF team = Null THEN NormalizeStats(db, gid, Tail(raw), acc)
            ELSE LET res == ResolvePlayerGames(db, st.player_id, st.player_name)
                 IN NormalizeStats(res[1], gid, Tail(raw),
                        Append(acc, [game_id |-> gid, player_id |-> res[2],
                                     team_internal_id |-> team[1],
                                     points |-> st.pts, dnp_reason |-> Null]))

\* points_by_team.get(team) after the loop of upsert_boxscore_batch
RECURSIVE PointsByTeam(_, _)
PointsByTeam(stats, team) ==
    IF stats = <<>> THEN Null
    ELSE LET st == stats[Len(stats)]
             prev == PointsByTeam(SubSeq(stats, 1, Len(stats) - 1), team)
         IN IF st.points # Null /\ st.team_internal_id = team
            THEN Val(Coalesce(prev, Val(0))[1] + st.points[1])
            ELSE prev

RECURSIVE UpsertAllStats(_, _)
UpsertAllStats(rows, stats) ==
    IF stats = <<>> THEN rows
    ELSE UpsertAllStats(UpsertBoxScoreSql(rows, Head(stats)), Tail(stats))

\* the update games ... statement at the end of upsert_boxscore_batch
BatchUpdateGames(rows, g, home_points, away_points) ==
    {IF r.game_id # g.game_id THEN r
     ELSE [r EXCEPT !.home_score = Coalesce(home_points, @),
                    !.away_score = Coalesce(away_points, @),
                    !.status = g.status] : r \in rows}

\* seed_games_nba.upsert_boxscore_batch as a function of the database
BoxscoreBatch(db, stats, g) ==
    LET home_points == PointsByTeam(stats, g.home_team_id)
        away_points == PointsByTeam(stats, g.away_team_id)
    IN [db EXCEPT
          !.player_game_stats = UpsertAllStats(@, stats),
          !.games = IF home_points # Null \/ away_points # Null
                    THEN BatchUpdateGames(@, g, home_points, away_points)
                    ELSE @]

SetDb(db) ==
    /\ games' = db.games
    /\ player_game_stats' = db.player_game_stats
    /\ team_game_stats' = db.team_game_stats
    /\ players' = db.players
    /\ provider_id_map' = db.provider_id_map

----------------------------------------------------------------------------
(* Upstream payloads *)

PointVals == {Null} \cup {Val(n) : n \in 0..MaxPoints}

\* PLAYER_ID, TEAM_ID and PLAYER_NAME of the i-th line of a box score
PlayerAt(i) == ToString(200 + i)

TeamNbaAt(i) == IF i % 2 = 1 THEN HomeTeamNba ELSE AwayTeamNba

TeamAt(i) == IF i % 2 = 1 THEN HomeTeam ELSE AwayTeam

NameAt(i) == IF i % 2 = 1 THEN <<"a", " ", "b">> ELSE <<"b", " ", "a", " ", "b">>

\* the PlayerStats rows fetch_boxscore can return: up to MaxStats lines
BoxScores ==
    UNION {{[i \in 1..n |-> [team_id |-> TeamNbaAt(i), player_id |-> PlayerAt(i),
                              player_name |-> NameAt(i), pts |-> f[i]]]
              : f \in [1..n -> PointVals]} : n \in 0..MaxStats}

\* the NormalizedPlayerStat lists those rows normalize to when every player
\* resolves to the provider's id
NormalizedStats(gid) ==
    UNION {{[i \in 1..n |-> [game_id |-> gid, player_id |-> PlayerAt(i),
                              team_internal_id |-> TeamAt(i), points |-> f[i],
                              dnp_reason |-> Null]]
              : f \in [1..n -> PointVals]} : n \in 0..MaxStats}

\* GAME_STATUS_TEXT is a str: never null
StatusTexts == StatusVals \ {Null}

\* the status texts the per-game units of seed_games_nba are run with: a
\* terminal known one, a known one that is not terminal, one outside the set
SeedStatusTexts == {Val("Final"), Val("Scheduled"), Val("Halftime")}

\* GAME_STATUS_ID: 1 scheduled, 2 live (3, final, takes the branch of 2)
StatusIds == {1, 2}

----------------------------------------------------------------------------
(* Operations *)

\* seed_games_nba.upsert_boxscore_batch, called on its own
UpsertBoxscoreBatch(gid, status, stats) ==
    LET g == IncomingGame(gid, status, Null, Null)
    IN /\ SetDb(BoxscoreBatch(CurrentDb, stats, g))
       /\ last' = [op |-> "upsert_boxscore_batch", game_id |-> gid]
       /\ UNCHANGED <<minutes_io, nba_boxscore, proc>>

\* seed_games_nba.main, one iteration of `for raw_game in games_raw`:
\* normalize_game, then begin / upsert_game / fetch_boxscore / normalize_player_stat /
\* upsert_boxscore_batch / commit, or rollback when the unit raises
SeedGameUnit(gid, status, status_id, box, raises) ==
    LET g == IncomingGame(gid, status, Null, Null)
        mapped == /\ TeamMapGet(provider_id_map, HomeTeamNba) # Null
                  /\ TeamMapGet(provider_id_map, AwayTeamNba) # Null
        outcome == IF ~mapped THEN "aborted"
                   ELSE IF status_id >= 2 /\ raises THEN "rolled_back"
                   ELSE "committed"
    IN \E db1 \in {[CurrentDb EXCEPT !.games = UpsertGameSql(@, g)]} :
       \E norm \in {IF status_id >= 2 /\ outcome = "committed"
                    THEN NormalizeStats(db1, gid, box, <<>>) ELSE <<db1, <<>>>>} :
       \E home_points \in {PointsByTeam(norm[2], HomeTeam)},
          away_points \in {PointsByTeam(norm[2], AwayTeam)} :
          /\ SetDb(IF outcome # "committed" THEN CurrentDb
                   ELSE IF status_id >= 2 THEN BoxscoreBatch(norm[1], norm[2], g)
                   ELSE db1)
          /\ last' = [op |-> "seed_game_unit", game_id |-> gid, outcome |-> outcome,
                      \* the batch ran against a stored home score with points
                      \* for the away team only
                      away_only |-> /\ status_id >= 2
                                    /\ GameExists(gid)
                                    /\ GameRow(gid).home_score # Null
                                    /\ home_points = Null
                                    /\ away_points # Null]
          /\ UNCHANGED <<minutes_io, nba_boxscore, proc>>

\* the insert into games ... on conflict (game_id) do update of upsert_nba_game
UpsertNbaGameSql(rows, g) ==
    IF \E r \in rows : r.game_id = g.game_id
    THEN {IF r.game_id # g.game_id THEN r ELSE g : r \in rows}
    ELSE rows \cup {g}

\* seed-nba-then-crossref-bdl.upsert_nba_game
UpsertNbaGame(gid, status) ==
    LET g == IncomingGame(gid, status, Null, Null)
        mapped == /\ TeamMapGet(provider_id_map, HomeTeamNba) # Null
                  /\ TeamMapGet(provider_id_map, AwayTeamNba) # Null
    IN /\ games' = IF mapped THEN UpsertNbaGameSql(games, g) ELSE games
       /\ provider_id_map' =
             IF mapped
             THEN UpsertMap(provider_id_map,
                            MapRow("game", gid, "nba", gid, "seeded_from_scoreboard"))
             ELSE provider_id_map
       /\ last' = [op |-> "upsert_nba_game", game_id |-> gid, ret |-> mapped,
                   had_scores |-> HasScores(gid)]
       /\ UNCHANGED <<player_game_stats, team_game_stats, players, minutes_io, nba_boxscore, proc>>

----------------------------------------------------------------------------
(* Specification: upsert_game alone on one games table *)

\* the rows a game can be stored as before the run, or no row at all
InitRowsOf(gid) ==
    {{}} \cup {{IncomingGame(gid, s, hs, as)} :
                 s \in StatusVals, hs \in ScoreVals, as \in ScoreVals}

InitGames == {UNION {f[gid] : gid \in GameIds} : f \in [GameIds -> UNION {InitRowsOf(gid) : gid \in GameIds}]}

\* the team mappings seeded before the run: both teams, or the home team only
InitTeamMaps == {TeamMapRows, {r \in TeamMapRows : r.provider_id = HomeTeamNba}}

InitCommon ==
    /\ player_game_stats = {}
    /\ team_game_stats = {}
    /\ players = {}
    /\ provider_id_map \in InitTeamMaps
    /\ minutes_io = Null
    /\ nba_boxscore = <<>>
    /\ proc = <<>>
    /\ last = [op |-> "none"]

InitUpsertGame ==
    /\ games \in InitGames
    /\ InitCommon

NextUpsertGame ==
    \E gid \in GameIds, s \in StatusVals, hs \in ScoreVals, as \in ScoreVals :
        UpsertGame(gid, s, hs, as)

SpecUpsertGame == InitUpsertGame /\ [][NextUpsertGame]_vars

\* C1: once the stored status of a game is 'Final', it is 'Final' after every
\* later upsert_game call, whatever the incoming status (known, unknown, null).
C1_FinalStaysFinal ==
    [][\A gid \in GameIds :
         IsFinal(gid) => (\E r \in games' : r.game_id = gid /\ r.status = Val("Final"))]_vars

\* an upsert_game carrying a status other than Final met a Final game
C1_Witness ==
    /\ last.op = "upsert_game"
    /\ last.was_final
    /\ last.status # Val("Final")
    /\ GameRow(last.game_id).status = Val("Final")

----------------------------------------------------------------------------
(* Specification: the per-game units of seed_games_nba.main *)

\* a game that is not yet live fetches no box score; a fetch that raises
\* yields no rows
NextSeedGames ==
    \E gid \in GameIds, s \in SeedStatusTexts, sid \in StatusIds :
        IF sid < 2 THEN SeedGameUnit(gid, s, sid, <<>>, FALSE)
        ELSE \/ \E box \in BoxScores : SeedGameUnit(gid, s, sid, box, FALSE)
             \/ SeedGameUnit(gid, s, sid, <<>>, TRUE)

SpecSeedGames == InitUpsertGame /\ [][NextSeedGames]_vars

\* C3: in seed_games_nba a home_score or away_score that is non-null before a
\* per-game unit (upsert_game, then upsert_boxscore_batch when a box score is
\* fetched) is non-null after it.
C3_ScoreNeverErased ==
    [][\A gid \in GameIds : GameExists(gid) =>
         \E r \in games' :
            /\ r.game_id = gid
            /\ (GameRow(gid).home_score # Null => r.home_score # Null)
            /\ (GameRow(gid).away_score # Null => r.away_score # Null)]_vars

\* a committed unit met stored scores with null incoming scores, and its batch
\* had points for the away team only
C3_Witness ==
    /\ last.op = "seed_game_unit"
    /\ last.outcome = "committed"
    /\ last.away_only
    /\ GameRow(last.game_id).home_score # Null
    /\ GameRow(last.game_id).away_score # Null

----------------------------------------------------------------------------
(* Specification: every game-writing operation, in any order *)

NextGameWrites ==
    \/ \E gid \in GameIds, s \in StatusVals, hs \in ScoreVals, as \in ScoreVals :
          UpsertGame(gid, s, hs, as)
    \/ \E gid \in GameIds, s \in StatusTexts :
          \E stats \in NormalizedStats(gid) : UpsertBoxscoreBatch(gid, s, stats)
    \/ \E gid \in GameIds, s \in StatusTexts : UpsertNbaGame(gid, s)

SpecGameWrites == InitUpsertGame /\ [][NextGameWrites]_vars

\* C2: under upsert_game, upsert_boxscore_batch and upsert_nba_game a game whose
\* stored status has become 'Final' never afterwards has another status.
C2_FinalIsTerminal ==
    [][\A gid \in GameIds :
         IsFinal(gid) => (\E r \in games' : r.game_id = gid /\ r.status = Val("Final"))]_vars

\* C4: when upsert_nba_game re-seeds a game stored with non-null home_score and
\* away_score, the stored scores are non-null afterwards.
C4_ReseedKeepsScores ==
    [][\A gid \in GameIds :
         (/\ last'.op = "upsert_nba_game"
          /\ last'.game_id = gid
          /\ HasScores(gid))
            => (\E r \in games' : r.game_id = gid /\ r.home_score # Null
                                     /\ r.away_score # Null)]_vars

----------------------------------------------------------------------------
(* parse_minutes_to_decimal *)

\* longest MIN string tried
MaxLen == 5

Digits == {"0", "2", "3"}

MinuteChars == Digits \cup {":", "a", "b", "c"}

DigitVal(c) == IF c = "0" THEN 0 ELSE IF c = "2" THEN 2 ELSE 3

\* the MIN values tried: None and every string of at most MaxLen characters
MinuteInputs == {Null} \cup {Val(str) : str \in UNION {[1..n -> MinuteChars] : n \in 0..MaxLen}}

\* value.split(":")
RECURSIVE SplitColonFrom(_, _, _)
SplitColonFrom(s, cur, acc) ==
    IF s = <<>> THEN Append(acc, cur)
    ELSE IF Head(s) = ":" THEN SplitColonFrom(Tail(s), <<>>, Append(acc, cur))
    ELSE SplitColonFrom(Tail(s), Append(cur, Head(s)), acc)

SplitColon(s) == SplitColonFrom(s, <<>>, <<>>)

\* int(part) succeeds: a non-empty run of digits
IsInt(part) == part # <<>> /\ \A i \in 1..Len(part) : part[i] \in Digits

RECURSIVE ToInt(_)
ToInt(part) ==
    IF part = <<>> THEN 0
    ELSE 10 * ToInt(SubSeq(part, 1, Len(part) - 1)) + DigitVal(part[Len(part)])

\* round(minutes + seconds / 60, 2), in hundredths of a minute; seconds / 60 is
\* never half-way between two hundredths
RoundedMinutes(minutes, seconds) == 100 * minutes + (10 * seconds + 3) \div 6

\* parse_minutes_to_decimal: Null for None, else the minutes in hundredths
ParseMinutesToDecimal(value) ==
    IF value = Null \/ value = Val(<<>>) THEN Null
    ELSE IF value \in {Val(<<>>), Val(<<"0">>), Val(<<"0", ":", "0", "0">>)} THEN Val(0)
    ELSE LET parts == SplitColon(value[1])
         IN IF Len(parts) # 2 THEN Null
            ELSE IF ~IsInt(parts[1]) \/ ~IsInt(parts[2]) THEN Null
            ELSE Val(RoundedMinutes(ToInt(parts[1]), ToInt(parts[2])))

\* one call: the pending argument is parsed and the result recorded
ParseMinutes ==
    /\ minutes_io # Null
    /\ ~minutes_io[1].done
    /\ minutes_io' = Val([value |-> minutes_io[1].value, done |-> TRUE,
                          result |-> ParseMinutesToDecimal(minutes_io[1].value)])
    /\ last' = [op |-> "parse_minutes_to_decimal"]
    /\ UNCHANGED <<games, player_game_stats, team_game_stats, players, provider_id_map,
                   nba_boxscore, proc>>

InitMinutes ==
    /\ games = {}
    /\ player_game_stats = {}
    /\ team_game_stats = {}
    /\ players = {}
    /\ provider_id_map = TeamMapRows
    /\ minutes_io \in {Val([value |-> v, done |-> FALSE, result |-> Null]) : v \in MinuteInputs}
    /\ nba_boxscore = <<>>
    /\ proc = <<>>
    /\ last = [op |-> "none"]

NextMinutes == ParseMinutes

SpecMinutes == InitMinutes /\ [][NextMinutes]_vars

\* the result recorded for the argument v, when v was the argument
ParsedAs(v, res) ==
    (minutes_io # Null /\ minutes_io[1].done /\ minutes_io[1].value = v)
        => minutes_io[1].result = res

\* C5: parse_minutes_to_decimal returns 32.5 for "32:30", 0.0 for "0:00", 0.0 for
\* the empty string, null for "abc" and null for None.
C5_MinutesExamples ==
    /\ ParsedAs(Val(<<"3", "2", ":", "3", "0">>), Val(3250))
    /\ ParsedAs(Val(<<"0", ":", "0", "0">>), Val(0))
    /\ ParsedAs(Val(<<>>), Val(0))
    /\ ParsedAs(Val(<<"a", "b", "c">>), Null)
    /\ ParsedAs(Null, Null)

----------------------------------------------------------------------------
(* seed_boxscores_nba.resolve_player_internal_id *)

\* pattern ILIKE str: % matches any run of characters, _ any one character,
\* every other character itself without regard to case
RECURSIVE ILike(_, _)
ILike(pattern, str) ==
    IF pattern = <<>> THEN str = <<>>
    ELSE IF Head(pattern) = "%"
         THEN ILike(Tail(pattern), str) \/ (str # <<>> /\ ILike(pattern, Tail(str)))
         ELSE /\ str # <<>>
              /\ (Head(pattern) = "_" \/ Lower(Head(pattern)) = Lower(Head(str)))
              /\ ILike(Tail(pattern), Tail(str))

\* where (first_name ilike %s and last_name ilike %s) or full_name ilike %s, with
\* the parameters (first_name, last_name, f"%{player_name}%"); a null column
\* matches nothing
NameMatches(r, player_name) ==
    LET name_parts == Split(player_name)
    IN \/ /\ r.first_name # Null
          /\ r.last_name # Null
          /\ ILike(name_parts[1], r.first_name[1])
          /\ ILike(name_parts[Len(name_parts)], r.last_name[1])
       \/ ILike(<<"%">> \o player_name \o <<"%">>, r.full_name)

\* the rows the name query can return (limit 1 picks any one of them); the
\* query runs only for names of two words or more
NameCandidates(rows, player_name) ==
    IF Len(Split(player_name)) >= 2
    THEN {r \in rows : NameMatches(r, player_name)}
    ELSE {}

\* select player_id from players where player_id = internal_id
PlayerCheckAlways(rows, internal_id) == TRUE

PlayerCheckNever(rows, internal_id) == FALSE

PlayerCheck(rows, internal_id) == \E r \in rows : r.player_id = internal_id

\* the insert into provider_id_map linking the NBA Stats id to an existing player
LinkExistingAndCreate(db, provider_player_id, existing_id) ==
    [db EXCEPT
       !.players = @ \cup {PlayerRow(provider_player_id, <<>>, Null, Null)},
       !.provider_id_map = UpsertMap(@,
           MapRow("player", existing_id, "nba", provider_player_id, "linked_to_existing"))]

LinkExisting(db, provider_player_id, existing_id) ==
    [db EXCEPT
       !.provider_id_map = UpsertMap(@,
           MapRow("player", existing_id, "nba", provider_player_id, "linked_to_existing"))]

\* "Player doesn't exist, create it": the insert into players and the insert
\* into provider_id_map, both with the NBA Stats id as internal id
CreatePlayer(db, provider_player_id, player_name) ==
    [db EXCEPT
       !.players = UpsertPlayer(@,
           PlayerRow(provider_player_id, player_name,
                     FirstNameOf(player_name), LastNameOf(player_name))),
       !.provider_id_map = UpsertMap(@,
           MapRow("player", provider_player_id, "nba", provider_player_id,
                  "seeded_from_boxscore"))]

\* what the first query finds: no row, a row whose player exists, or an orphan
Found(db, provider_player_id) ==
    LET row == LookupMap(db.provider_id_map, "player", "nba", provider_player_id)
    IN IF row = Null THEN "none"
       ELSE IF PlayerCheck(db.players, row[1]) THEN "usable"
       ELSE "orphan"

\* seed_boxscores_nba.resolve_player_internal_id: the possible results, each with
\* the database it leaves, the id it returns, the branch taken and the number
\* of insert statements executed
ResolvePlayerBox(db, provider_player_id, player_name) ==
    LET row == LookupMap(db.provider_id_map, "player", "nba", provider_player_id)
        existing == NameCandidates(db.players, player_name)
    IN IF row # Null /\ PlayerCheck(db.players, row[1])
       THEN {[db |-> db, ret |-> row[1], path |-> "mapped", writes |-> 0]}
       ELSE IF existing # {}
       THEN {[db |-> LinkExisting(db, provider_player_id, r.player_id),
              ret |-> r.player_id, path |-> "linked", writes |-> 1] : r \in existing}
       ELSE {[db |-> CreatePlayer(db, provider_player_id, player_name),
              ret |-> provider_player_id, path |-> "created", writes |-> 2]}

\* the same call as the one recorded in last
SameCall(op, provider_player_id, player_name) ==
    /\ last.op = op
    /\ last.provider_player_id = provider_player_id
    /\ last.player_name = player_name

ResolveBox(provider_player_id, player_name) ==
    \E o \in ResolvePlayerBox(CurrentDb, provider_player_id, player_name) :
        /\ SetDb(o.db)
        /\ last' = [op |-> "resolve_box", provider_player_id |-> provider_player_id,
                    player_name |-> player_name, ret |-> o.ret, path |-> o.path,
                    writes |-> o.writes,
                    found |-> Found(CurrentDb, provider_player_id),
                    \* the branch of the same call made just before, if any
                    after |-> IF SameCall("resolve_box", provider_player_id, player_name)
                              THEN last.path ELSE "none"]
        /\ UNCHANGED <<minutes_io, nba_boxscore, proc>>

ResolveGames(provider_player_id, player_name) ==
    LET res == ResolvePlayerGames(CurrentDb, provider_player_id, player_name)
    IN /\ SetDb(res[1])
       /\ last' = [op |-> "resolve_games", provider_player_id |-> provider_player_id,
                   player_name |-> player_name, ret |-> res[2]]
       /\ UNCHANGED <<minutes_io, nba_boxscore, proc>>

----------------------------------------------------------------------------
(* Specification: the two player resolvers on any players / provider_id_map *)

\* PLAYER_NAME values: "a b", "A B", "b a b" and the single word "a"
Names == {<<"a", " ", "b">>, <<"A", " ", "B">>, <<"b", " ", "a", " ", "b">>, <<"a">>}

\* NBA Stats player ids resolved
ProviderPlayerIds == {PlayerAt(1), PlayerAt(2)}

\* a player id that came from another source
OtherPlayerId == "77"

\* players rows present before the run
InitPlayerIds == {PlayerAt(1), OtherPlayerId}

InitPlayers ==
    {UNION {f[id] : id \in InitPlayerIds} :
        f \in [InitPlayerIds ->
                 {{}} \cup {{PlayerRow(id, n, FirstNameOf(n), LastNameOf(n))} :
                              id \in InitPlayerIds, n \in Names}]}

\* player mappings present before the run; a mapping may point at a player id
\* that has no players row
InitPlayerMaps ==
    {UNION {f[pid] : pid \in ProviderPlayerIds} :
        f \in [ProviderPlayerIds ->
                 {{}} \cup {{MapRow("player", x, "nba", pid, "seeded_from_boxscore")} :
                              pid \in ProviderPlayerIds,
                              x \in ProviderPlayerIds \cup {OtherPlayerId}}]}

UniquePlayers(rows) == \A r1, r2 \in rows : r1.player_id = r2.player_id => r1 = r2

UniqueKeys(rows) == \A r1, r2 \in rows : SameKey(r1, r2) => r1 = r2

InitResolver ==
    /\ games = {}
    /\ player_game_stats = {}
    /\ team_game_stats = {}
    /\ players \in {rows \in InitPlayers :
                      UniquePlayers(rows) /\ \A r \in rows : r.player_id \in InitPlayerIds}
    /\ provider_id_map \in {rows \in InitPlayerMaps :
                              UniqueKeys(rows) /\ \A r \in rows : r.provider_id \in ProviderPlayerIds}
    /\ minutes_io = Null
    /\ nba_boxscore = <<>>
    /\ proc = <<>>
    /\ last = [op |-> "none"]

NextResolver ==
    \/ \E pid \in ProviderPlayerIds, name \in Names : ResolveBox(pid, name)
    \/ \E pid \in ProviderPlayerIds, name \in Names : ResolveGames(pid, name)

SpecResolver == InitResolver /\ [][NextResolver]_vars

\* the mapping row of an NBA Stats player id points at internal_id
MapsTo(rows, provider_player_id, internal_id) ==
    \E m \in rows : /\ m.entity_type = "player"
                    /\ m.provider = "nba"
                    /\ m.provider_id = provider_player_id
                    /\ m.internal_id = internal_id

\* the mapping row of an NBA Stats player id points at an id without players row
IsOrphan(provider_player_id) ==
    \E m \in provider_id_map :
        /\ m.entity_type = "player"
        /\ m.provider = "nba"
        /\ m.provider_id = provider_player_id
        /\ ~\E r \in players : r.player_id = m.internal_id

\* C7: a second seed_boxscores_nba.resolve_player_internal_id call with the same
\* provider player id and name, right after a first call returned, returns the
\* same internal id and writes no row to players or provider_id_map.
C7_ResolveIdempotent ==
    [][\A pid \in ProviderPlayerIds, name \in Names :
         (/\ SameCall("resolve_box", pid, name)
          /\ last'.op = "resolve_box"
          /\ last'.provider_player_id = pid
          /\ last'.player_name = name)
            => /\ last'.ret = last.ret
               /\ (last' # last => last'.writes = 0)
               /\ players' = players
               /\ provider_id_map' = provider_id_map]_vars

\* a call that wrote rows was repeated and the repetition took the mapped branch
C7_Witness ==
    /\ last.op = "resolve_box"
    /\ last.after \in {"linked", "created"}
    /\ last.path = "mapped"
    /\ last.writes = 0

\* C8: called for a provider id whose mapping row is an orphan, the box-score
\* resolver returns an id that has a players row and that the mapping of the
\* provider id points at.
C8_OrphanHealed ==
    [][\A pid \in ProviderPlayerIds :
         (IsOrphan(pid) /\ last'.op = "resolve_box" /\ last'.provider_player_id = pid)
            => /\ \E r \in players' : r.player_id = last'.ret
               /\ MapsTo(provider_id_map', pid, last'.ret)]_vars

\* the resolver met an orphan mapping and returned
C8_Witness ==
    /\ last.op = "resolve_box"
    /\ last.found = "orphan"
    /\ \E r \in players : r.player_id = last.ret
    /\ MapsTo(provider_id_map, last.provider_player_id, last.ret)

\* C9: whenever seed_games_nba.resolve_player_internal_id returns an id X,
\* players contains a row with player_id X.
C9_ReturnedPlayerExists ==
    last.op = "resolve_games" => \E r \in players : r.player_id = last.ret

\* C10: when the box-score resolver finds no usable mapping but finds a player
\* by name, it writes exactly one provider_id_map row (provider id -> matched
\* player), leaves players unchanged and returns the matched player's id.
C10_LinkWritesOneMapping ==
    [][\A pid \in ProviderPlayerIds, name \in Names :
         (/\ last'.op = "resolve_box"
          /\ last'.provider_player_id = pid
          /\ last'.player_name = name
          /\ last' # last
          /\ Found(CurrentDb, pid) # "usable"
          /\ NameCandidates(players, name) # {})
            => /\ players' = players
               /\ Cardinality(provider_id_map' \ provider_id_map) = 1
               /\ \A m \in provider_id_map' \ provider_id_map :
                     /\ m.entity_type = "player"
                     /\ m.provider = "nba"
                     /\ m.provider_id = pid
                     /\ m.internal_id = last'.ret
               /\ \A m \in provider_id_map \ provider_id_map' :
                     m.entity_type = "player" /\ m.provider = "nba" /\ m.provider_id = pid
               /\ \E r \in players : r.player_id = last'.ret /\ NameMatches(r, name)]_vars

\* the resolver linked a provider id to a player found by name
C10_Witness ==
    /\ last.op = "resolve_box"
    /\ last.path = "linked"
    /\ last.ret # last.provider_player_id
    /\ MapsTo(provider_id_map, last.provider_player_id, last.ret)

----------------------------------------------------------------------------
(* Cross-provider reconciliation of games *)

\* game_id like '002%': the NBA Stats games
NbaGameIds == GameIds \cup {LaterGameId}

\* game_id like '184%': the BallDontLie games
BdlGameIds == {"18400001"}

\* table teams: team_id and abbreviation
teams ==
    {[team_id |-> "BOS", abbreviation |-> "BOS"],
     [team_id |-> "MIA", abbreviation |-> "MIA"]}

Abbreviation(team_id) == (CHOOSE t \in teams : t.team_id = team_id).abbreviation

\* the join condition shared by the cross-reference queries: same Eastern date,
\* same home and same away abbreviation, NBA Stats id against BallDontLie id
GamesMatch(nba_game, bdl_game) ==
    /\ nba_game.game_id \in NbaGameIds
    /\ bdl_game.game_id \in BdlGameIds
    /\ nba_game.start_date = bdl_game.start_date
    /\ \E nba_home, nba_away, bdl_home, bdl_away \in teams :
          /\ nba_game.home_team_id = nba_home.team_id
          /\ nba_game.away_team_id = nba_away.team_id
          /\ bdl_game.home_team_id = bdl_home.team_id
          /\ bdl_game.away_team_id = bdl_away.team_id
          /\ nba_home.abbreviation = bdl_home.abbreviation
          /\ nba_away.abbreviation = bdl_away.abbreviation

HasKey(rows, etype, provider, pid) ==
    \E m \in rows : m.entity_type = etype /\ m.provider = provider /\ m.provider_id = pid

\* insert ... select ... on conflict do nothing: every selected row is inserted
\* unless its key is present (the selected keys are distinct)
InsertAllDoNothing(rows, selected) ==
    rows \cup {m \in selected : ~\E r \in rows : SameKey(r, m)}

\* sync-game-provider-mappings.create_nba_stats_mappings
CreateNbaStatsMappingsSql(db) ==
    [db EXCEPT !.provider_id_map = InsertAllDoNothing(@,
        {MapRow("game", g.game_id, "nba", g.game_id, "seeded_from_scoreboard") :
            g \in {x \in db.games : /\ x.game_id \in NbaGameIds
                                    /\ ~HasKey(db.provider_id_map, "game", "nba", x.game_id)}})]

\* sync-game-provider-mappings.cross_reference_games: its two statements
CrossReferenceGamesSql(db) ==
    LET pairs == {pr \in db.games \X db.games : GamesMatch(pr[1], pr[2])}
        first == InsertAllDoNothing(db.provider_id_map,
                    {MapRow("game", pr[1].game_id, "nba", pr[1].game_id, "cross_referenced") :
                        pr \in {x \in pairs :
                                  ~HasKey(db.provider_id_map, "game", "nba", x[1].game_id)}})
        second == InsertAllDoNothing(first,
                    {MapRow("game", pr[2].game_id, "balldontlie", pr[2].game_id,
                            "cross_referenced") :
                        pr \in {x \in pairs :
                                  ~HasKey(first, "game", "balldontlie", x[2].game_id)}})
    IN [db EXCEPT !.provider_id_map = second]

\* sync-game-provider-mappings.main: both steps in one transaction, rolled back
\* when a statement raises
SyncGameProviderMappings(raises) ==
    /\ SetDb(IF raises THEN CurrentDb
             ELSE CrossReferenceGamesSql(CreateNbaStatsMappingsSql(CurrentDb)))
    /\ last' = [op |-> "sync_game_provider_mappings", committed |-> ~raises]
    /\ UNCHANGED <<minutes_io, nba_boxscore, proc>>

\* seed-nba-then-crossref-bdl.cross_reference_with_bdl: the BallDontLie games
\* the query can return (limit 1 picks any one of them)
CrossReferenceWithBdl(rows, nba_date, home_abbr, away_abbr) ==
    {g.game_id : g \in {x \in rows :
        /\ x.game_id \in BdlGameIds
        /\ x.start_date = nba_date
        /\ \E bdl_home, bdl_away \in teams :
              /\ x.home_team_id = bdl_home.team_id
              /\ x.away_team_id = bdl_away.team_id
              /\ bdl_home.abbreviation = home_abbr
              /\ bdl_away.abbreviation = away_abbr}}

\* create_bdl_mapping without its second statement
CreateBdlMappingOneWay(rows, nba_game_id, bdl_game_id) ==
    UpsertMap(rows,
              MapRow("game", nba_game_id, "balldontlie", bdl_game_id, "cross_referenced"))

\* seed-nba-then-crossref-bdl.create_bdl_mapping
CreateBdlMapping(rows, nba_game_id, bdl_game_id) ==
    UpsertMap(UpsertMap(rows,
                  MapRow("game", nba_game_id, "balldontlie", bdl_game_id, "cross_referenced")),
              MapRow("game", bdl_game_id, "nba", nba_game_id, "cross_referenced"))

\* seed-nba-then-crossref-bdl.main, one iteration of `for game in nba_games`:
\* upsert_nba_game, then cross_reference_with_bdl and create_bdl_mapping
CrossrefSeedGame(gid, status) ==
    LET g == IncomingGame(gid, status, Null, Null)
        mapped == /\ TeamMapGet(provider_id_map, HomeTeamNba) # Null
                  /\ TeamMapGet(provider_id_map, AwayTeamNba) # Null
        games1 == IF mapped THEN UpsertNbaGameSql(games, g) ELSE games
        map1 == IF mapped
                THEN UpsertMap(provider_id_map,
                               MapRow("game", gid, "nba", gid, "seeded_from_scoreboard"))
                ELSE provider_id_map
        found == IF mapped
                 THEN CrossReferenceWithBdl(games1, GameDate, Abbreviation(HomeTeam),
                                            Abbreviation(AwayTeam))
                 ELSE {}
    IN /\ games' = games1
       /\ \/ /\ found = {}
             /\ provider_id_map' = map1
             /\ last' = [op |-> "crossref_seed_game", game_id |-> gid, bdl_game_id |-> Null]
          \/ \E bdl_game_id \in found :
                /\ provider_id_map' = CreateBdlMapping(map1, gid, bdl_game_id)
                /\ last' = [op |-> "crossref_seed_game", game_id |-> gid,
                            bdl_game_id |-> Val(bdl_game_id)]
       /\ UNCHANGED <<player_game_stats, team_game_stats, players, minutes_io, nba_boxscore, proc>>

\* seed_players_nba.upsert_players for one roster player
UpsertRosterPlayer(player_id, full_name) ==
    /\ players' = UpsertPlayer(players,
                      PlayerRow(player_id, full_name, FirstNameOf(full_name),
                                LastNameOf(full_name)))
    /\ provider_id_map' = UpsertMap(provider_id_map,
                              MapRow("player", player_id, "nba", player_id, "roster"))
    /\ last' = [op |-> "upsert_roster_player", player_id |-> player_id]
    /\ UNCHANGED <<games, player_game_stats, team_game_stats, minutes_io, nba_boxscore, proc>>

----------------------------------------------------------------------------
(* Specification: every operation that writes provider_id_map *)

\* the BallDontLie game stored before the run: same or different date, same or
\* swapped teams as the NBA Stats game
InitBdlGames ==
    {{}} \cup {{[game_id |-> bdl, start_date |-> d, status |-> Val("Final"),
                 home_team_id |-> tm[1], away_team_id |-> tm[2],
                 home_score |-> Null, away_score |-> Null]} :
                 bdl \in BdlGameIds, d \in {GameDate, NextDate},
                 tm \in {<<HomeTeam, AwayTeam>>, <<AwayTeam, HomeTeam>>}}

InitNbaGames ==
    {{}} \cup {{IncomingGame(gid, Val("Final"), Null, Null)} : gid \in GameIds}

\* names and ids the resolvers are called with in this specification
MappingNames == {<<"a", " ", "b">>, <<"a">>}

MappingPlayerIds == {PlayerAt(1)}

InitMappings ==
    /\ games \in {n \cup b : n \in InitNbaGames, b \in InitBdlGames}
    /\ player_game_stats = {}
    /\ team_game_stats = {}
    /\ players \in {{}, {PlayerRow(OtherPlayerId, <<"A", " ", "B">>,
                                   Val(<<"A">>), Val(<<"B">>))}}
    /\ provider_id_map \in
          {t \cup m : t \in InitTeamMaps,
                      m \in {{}, {MapRow("player", OtherPlayerId, "nba", PlayerAt(1),
                                         "seeded_from_boxscore")}}}
    /\ minutes_io = Null
    /\ nba_boxscore = <<>>
    /\ proc = <<>>
    /\ last = [op |-> "none"]

NextMappings ==
    \/ \E pid \in MappingPlayerIds, name \in MappingNames : ResolveBox(pid, name)
    \/ \E pid \in MappingPlayerIds, name \in MappingNames : ResolveGames(pid, name)
    \/ \E pid \in MappingPlayerIds, name \in MappingNames : UpsertRosterPlayer(pid, name)
    \/ \E gid \in GameIds : CrossrefSeedGame(gid, Val("Final"))
    \/ \E raises \in BOOLEAN : SyncGameProviderMappings(raises)

SpecMappings == InitMappings /\ [][NextMappings]_vars

Keys(rows) == {<<m.entity_type, m.provider, m.provider_id>> : m \in rows}

\* C6: provider_id_map holds at most one row per (entity_type, provider,
\* provider_id), and no operation removes a key or changes a row's key: the
\* set of keys only grows, while a row's internal_id may be repointed.
C6_KeysUniqueAndGrow ==
    /\ [](\A r1, r2 \in provider_id_map :
            (/\ r1.entity_type = r2.entity_type
             /\ r1.provider = r2.provider
             /\ r1.provider_id = r2.provider_id) => r1 = r2)
    /\ [][Keys(provider_id_map) \subseteq Keys(provider_id_map')]_vars

\* create_bdl_mapping repointed the ('game','nba',A) row, written by
\* upsert_nba_game with internal id A, to the BallDontLie game
C6_Witness ==
    /\ last.op = "crossref_seed_game"
    /\ last.bdl_game_id # Null
    /\ \E m \in provider_id_map :
          /\ m.entity_type = "game"
          /\ m.provider = "nba"
          /\ m.provider_id = last.game_id
          /\ m.internal_id = last.bdl_game_id[1]
    /\ Cardinality(Keys(provider_id_map)) = Cardinality(provider_id_map)

----------------------------------------------------------------------------
(* Cross-provider links between games *)

\* a lookup of the NBA Stats id a and a lookup of the BallDontLie id b
\* resolve to one common internal id
GamesLinked(rows, a, b) ==
    \E ma, mb \in rows :
        /\ ma.entity_type = "game" /\ ma.provider = "nba" /\ ma.provider_id = a
        /\ mb.entity_type = "game" /\ mb.provider = "balldontlie" /\ mb.provider_id = b
        /\ ma.internal_id = mb.internal_id

\* the pairs (NBA Stats game, BallDontLie game) of the table that agree on
\* the Eastern date and on both team abbreviations
MatchingPairs(rows) == {pr \in rows \X rows : GamesMatch(pr[1], pr[2])}

\* C11: after a committed run of sync-game-provider-mappings, every NBA Stats
\* game A and BallDontLie game B with the same Eastern date and the same home
\* and away abbreviations are linked: looking up A's provider id and B's
\* provider id gives one common internal id.
C11_SyncLinksMatchingGames ==
    (last.op = "sync_game_provider_mappings" /\ last.committed)
        => \A pr \in MatchingPairs(games) :
              GamesLinked(provider_id_map, pr[1].game_id, pr[2].game_id)

----------------------------------------------------------------------------
(* seed-nba-then-crossref-bdl: a whole run, one transaction *)

\* resolve_team_mapping raises RuntimeError when no team row is mapped
NoTeamMappings(rows) ==
    ~\E r \in rows : r.entity_type = "team" /\ r.provider = "nba"

\* both teams of the scheduled games are in the dict of resolve_team_mapping
TeamsMapped(rows) ==
    /\ TeamMapGet(rows, HomeTeamNba) # Null
    /\ TeamMapGet(rows, AwayTeamNba) # Null

\* the row upsert_nba_game writes for a scoreboard header
HeaderGame(gid, status) ==
    [IncomingGame(gid, status, Null, Null) EXCEPT !.start_date = DateOf(gid)]

\* upsert_nba_game as a function of the database: <<database, return value>>
CrossrefUpsertNbaGame(db, gid, status) ==
    IF ~TeamsMapped(db.provider_id_map) THEN <<db, FALSE>>
    ELSE <<[db EXCEPT
              !.games = UpsertNbaGameSql(@, HeaderGame(gid, status)),
              !.provider_id_map = UpsertMap(@,
                  MapRow("game", gid, "nba", gid, "seeded_from_scoreboard"))],
           TRUE>>

\* cross_reference_with_bdl and create_bdl_mapping of one iteration; prefer is
\* the row the limit 1 returns when it is among the matches
CrossrefLinkGame(db, gid, prefer) ==
    LET found == CrossReferenceWithBdl(db.games, DateOf(gid), Abbreviation(HomeTeam),
                                       Abbreviation(AwayTeam))
    IN IF found = {} THEN db
       ELSE [db EXCEPT !.provider_id_map =
                CreateBdlMapping(@, gid, IF prefer \in found THEN prefer
                                         ELSE CHOOSE b \in found : TRUE)]

\* one iteration of `for game in nba_games`
CrossrefIteration(db, gid, status, prefer) ==
    LET up == CrossrefUpsertNbaGame(db, gid, status)
    IN IF up[2] THEN CrossrefLinkGame(up[1], gid, prefer) ELSE up[1]

RECURSIVE CrossrefIterations(_, _, _, _)
CrossrefIterations(db, nba_games, status, prefer) ==
    IF nba_games = <<>> THEN db
    ELSE CrossrefIterations(CrossrefIteration(db, Head(nba_games), status, prefer),
                            Tail(nba_games), status, prefer)

\* the game has a BallDontLie mapping to itself as internal id and its own
\* NBA Stats mapping points at that BallDontLie game
HasBothLinks(rows, nba_game_id, bdl_game_id) ==
    /\ LookupMap(rows, "game", "balldontlie", bdl_game_id) = Val(nba_game_id)
    /\ LookupMap(rows, "game", "nba", nba_game_id) = Val(bdl_game_id)

\* seed-nba-then-crossref-bdl.main: begin, resolve_team_mapping, the loop over
\* the dates and their games, commit; any exception rolls the transaction back
\* and exits 1.  fail_at = 0: no statement raises; fail_at = k: a statement of
\* iteration k after upsert_nba_game (cross_reference_with_bdl or
\* create_bdl_mapping) raises.
CrossrefRun(nba_games, status, prefer, fail_at) ==
    LET no_teams == NoTeamMappings(provider_id_map)
        mapped == TeamsMapped(provider_id_map)
        committed == ~no_teams /\ fail_at = 0
        done == IF no_teams \/ ~mapped THEN {}
                ELSE {nba_games[i] : i \in 1..(IF fail_at = 0 THEN Len(nba_games)
                                                ELSE fail_at - 1)}
    IN /\ fail_at > 0 => mapped
       /\ SetDb(IF committed
                THEN CrossrefIterations(CurrentDb, nba_games, status, prefer)
                ELSE CurrentDb)
       /\ last' = [op |-> "crossref_run", committed |-> committed,
                   exit_code |-> IF committed THEN 0 ELSE 1,
                   seeded |-> done,
                   had_links |-> {gid \in done : \E b \in BdlGameIds :
                                     HasBothLinks(provider_id_map, gid, b)}]
       /\ UNCHANGED <<minutes_io, nba_boxscore, proc>>

\* the scoreboards of the dates of a run: the games in date order
ScoreboardRuns ==
    {<<>>} \cup {<<gid>> : gid \in NbaGameIds} \cup {<<gid, LaterGameId>> : gid \in GameIds}

InitCrossref ==
    /\ games \in {n \cup b : n \in InitNbaGames, b \in InitBdlGames}
    /\ player_game_stats = {}
    /\ team_game_stats = {}
    /\ players = {}
    /\ provider_id_map \in InitTeamMaps \cup {{}}
    /\ minutes_io = Null
    /\ nba_boxscore = <<>>
    /\ proc = <<>>
    /\ last = [op |-> "none"]

NextCrossref ==
    \/ \E nba_games \in ScoreboardRuns, status \in {Val("Final"), Val("Scheduled")},
          prefer \in BdlGameIds, fail_at \in 0..2 :
          /\ fail_at <= Len(nba_games)
          /\ CrossrefRun(nba_games, status, prefer, fail_at)
    \/ \E raises \in BOOLEAN : SyncGameProviderMappings(raises)

SpecCrossref == InitCrossref /\ [][NextCrossref]_vars

\* C12: after a committed run of seed-nba-then-crossref-bdl, every NBA game A
\* the run seeded that matches a stored BallDontLie game B (same Eastern date,
\* same home and away abbreviations) has ('game','balldontlie',B) mapped to A
\* and ('game','nba',A) mapped to B; this holds for a first run and for every
\* later run on the same data.
C12_RunLinksBothDirections ==
    (last.op = "crossref_run" /\ last.committed)
        => \A gid \in last.seeded : \A b \in games :
              (GameExists(gid) /\ GamesMatch(GameRow(gid), b))
                 => HasBothLinks(provider_id_map, gid, b.game_id)

\* a second committed run found both links in place and left them in place
C12_Witness ==
    /\ last.op = "crossref_run"
    /\ last.committed
    /\ \E gid \in last.seeded \cap last.had_links : \E b \in games :
          /\ GamesMatch(GameRow(gid), b)
          /\ HasBothLinks(provider_id_map, gid, b.game_id)

\* C20: in seed-nba-then-crossref-bdl, the games and provider_id_map rows
\* written for the games processed before a failing iteration are in the
\* database after the run has ended, whether it ended by commit or by failure.
C20_EarlierGamesKept ==
    (last.op = "crossref_run")
        => \A gid \in last.seeded :
              /\ GameExists(gid)
              /\ HasKey(provider_id_map, "game", "nba", gid)

----------------------------------------------------------------------------
(* copy-stats-to-bdl-games *)

\* copy_player_stats with on conflict (game_id, player_id) do update
CopyPlayerStatsSqlDoUpdate(rows, bdl_game_id, nba_game_id) ==
    LET selected == {[r EXCEPT !.game_id = bdl_game_id] :
                        r \in {x \in rows : x.game_id = nba_game_id}}
    IN {r \in rows : ~\E c \in selected :
                        c.game_id = r.game_id /\ c.player_id = r.player_id}
       \cup selected

\* copy_player_stats: insert into player_game_stats select <bdl id>, ... from
\* player_game_stats where game_id = <nba id> on conflict (game_id, player_id)
\* do nothing
CopyPlayerStatsSql(rows, bdl_game_id, nba_game_id) ==
    LET selected == {[r EXCEPT !.game_id = bdl_game_id] :
                        r \in {x \in rows : x.game_id = nba_game_id}}
    IN rows \cup {c \in selected : ~\E r \in rows :
                        r.game_id = c.game_id /\ r.player_id = c.player_id}

\* copy_team_stats: the same statement on team_game_stats, key (game_id, team_id)
CopyTeamStatsSql(rows, bdl_game_id, nba_game_id) ==
    LET selected == {[r EXCEPT !.game_id = bdl_game_id] :
                        r \in {x \in rows : x.game_id = nba_game_id}}
    IN rows \cup {c \in selected : ~\E r \in rows :
                        r.game_id = c.game_id /\ r.team_id = c.team_id}

\* the number of selected rows whose key is present at the destination
PlayerConflicts(rows, bdl_game_id, nba_game_id) ==
    Cardinality({x \in rows : /\ x.game_id = nba_game_id
                              /\ \E r \in rows : /\ r.game_id = bdl_game_id
                                                 /\ r.player_id = x.player_id})

TeamConflicts(rows, bdl_game_id, nba_game_id) ==
    Cardinality({x \in rows : /\ x.game_id = nba_game_id
                              /\ \E r \in rows : /\ r.game_id = bdl_game_id
                                                 /\ r.team_id = x.team_id})

CopyPlayerStats(bdl_game_id, nba_game_id) ==
    /\ player_game_stats' = CopyPlayerStatsSql(player_game_stats, bdl_game_id, nba_game_id)
    /\ last' = [op |-> "copy_player_stats", dest |-> bdl_game_id, src |-> nba_game_id,
                returned |-> Cardinality(player_game_stats') - Cardinality(player_game_stats),
                conflicts |-> PlayerConflicts(player_game_stats, bdl_game_id, nba_game_id)]
    /\ UNCHANGED <<games, team_game_stats, players, provider_id_map, minutes_io, nba_boxscore, proc>>

CopyTeamStats(bdl_game_id, nba_game_id) ==
    /\ team_game_stats' = CopyTeamStatsSql(team_game_stats, bdl_game_id, nba_game_id)
    /\ last' = [op |-> "copy_team_stats", dest |-> bdl_game_id, src |-> nba_game_id,
                returned |-> Cardinality(team_game_stats') - Cardinality(team_game_stats),
                conflicts |-> TeamConflicts(team_game_stats, bdl_game_id, nba_game_id)]
    /\ UNCHANGED <<games, player_game_stats, players, provider_id_map, minutes_io, nba_boxscore, proc>>

\* find_matching_games without date arguments: (bdl id, nba id) of the Final
\* BallDontLie games matching an NBA Stats game that has player rows while the
\* BallDontLie game has none
FindMatchingGames(db) ==
    {<<pr[2].game_id, pr[1].game_id>> :
        pr \in {x \in db.games \X db.games :
                  /\ GamesMatch(x[1], x[2])
                  /\ x[2].status = Val("Final")
                  /\ \E r \in db.player_game_stats : r.game_id = x[1].game_id
                  /\ ~\E r \in db.player_game_stats : r.game_id = x[2].game_id}}

\* the loop of main over the matches (their order does not matter: every match
\* has its own destination game)
RECURSIVE CopyMatches(_, _)
CopyMatches(db, matches) ==
    IF matches = {} THEN db
    ELSE LET m == CHOOSE x \in matches : TRUE
         IN CopyMatches([db EXCEPT
                !.player_game_stats = CopyPlayerStatsSql(@, m[1], m[2]),
                !.team_game_stats = CopyTeamStatsSql(@, m[1], m[2])],
              matches \ {m})

\* copy-stats-to-bdl-games.main without the --dry-run branch
CopyStatsRunIgnoringDryRun(dry_run) ==
    LET matches == FindMatchingGames(CurrentDb)
    IN /\ SetDb(IF matches = {} THEN CurrentDb
                ELSE CopyMatches(CurrentDb, matches))
       /\ last' = [op |-> "copy_stats_run", dry_run |-> dry_run,
                   matches |-> Cardinality(matches)]
       /\ UNCHANGED <<minutes_io, nba_boxscore, proc>>

\* copy-stats-to-bdl-games.main: begin, find_matching_games, then rollback when
\* there is no match or with --dry-run, else the copies and commit
CopyStatsRun(dry_run) ==
    LET matches == FindMatchingGames(CurrentDb)
    IN /\ SetDb(IF matches = {} \/ dry_run THEN CurrentDb
                ELSE CopyMatches(CurrentDb, matches))
       /\ last' = [op |-> "copy_stats_run", dry_run |-> dry_run,
                   matches |-> Cardinality(matches)]
       /\ UNCHANGED <<minutes_io, nba_boxscore, proc>>

----------------------------------------------------------------------------
(* Specification: copy-stats-to-bdl-games on stored stats rows *)

\* a player_game_stats row of the i-th box score player, or no row
PlayerStatRows(gid, i, points) ==
    {{}} \cup {{[game_id |-> gid, player_id |-> PlayerAt(i), team_id |-> TeamAt(i),
                 points |-> p, dnp_reason |-> Null]} : p \in points}

\* a team_game_stats row of the home team, or no row
TeamStatRows(gid) ==
    {{}} \cup {{[game_id |-> gid, team_id |-> HomeTeam, is_home |-> TRUE,
                 points |-> n]} : n \in 0..MaxPoints}

\* the game ids copy_player_stats and copy_team_stats are called with
CopyGameIds == NbaGameIds \cup BdlGameIds

InitCopyStats ==
    /\ games \in {{IncomingGame(gid, Val("Final"), Null, Null) : gid \in GameIds} \cup b :
                     b \in {x \in InitBdlGames :
                              \A g \in x : g.home_team_id = HomeTeam}}
    /\ player_game_stats \in
          {a1 \cup a2 \cup b1 \cup l1 :
              a1 \in UNION {PlayerStatRows(gid, 1, PointVals) : gid \in GameIds},
              a2 \in UNION {PlayerStatRows(gid, 2, {Val(0)}) : gid \in GameIds},
              b1 \in UNION {PlayerStatRows(gid, 1, {Val(0)}) : gid \in BdlGameIds},
              l1 \in PlayerStatRows(LaterGameId, 1, {Val(0)})}
    /\ team_game_stats \in
          {a \cup b : a \in UNION {TeamStatRows(gid) : gid \in GameIds},
                      b \in {x \in UNION {TeamStatRows(gid) : gid \in BdlGameIds} :
                               \A r \in x : r.points = 0}}
    /\ players = {}
    /\ provider_id_map = TeamMapRows
    /\ minutes_io = Null
    /\ nba_boxscore = <<>>
    /\ proc = <<>>
    /\ last = [op |-> "none"]

NextCopyStats ==
    \/ \E dest \in CopyGameIds, src \in CopyGameIds : CopyPlayerStats(dest, src)
    \/ \E dest \in CopyGameIds, src \in CopyGameIds : CopyTeamStats(dest, src)
    \/ \E dry_run \in BOOLEAN : CopyStatsRun(dry_run)

SpecCopyStats == InitCopyStats /\ [][NextCopyStats]_vars

\* C13: copy_player_stats and copy_team_stats only add rows: every row of
\* player_game_stats and team_game_stats that existed before the call is there
\* unchanged afterwards, and each added row belongs to the destination game and
\* has a key (game, player or team) that had no row before.
C13_CopyOnlyAdds ==
    [][(last'.op \in {"copy_player_stats", "copy_team_stats"})
         => /\ player_game_stats \subseteq player_game_stats'
            /\ team_game_stats \subseteq team_game_stats'
            /\ \A n \in player_game_stats' \ player_game_stats :
                  /\ n.game_id = last'.dest
                  /\ ~\E r \in player_game_stats :
                        r.game_id = n.game_id /\ r.player_id = n.player_id
            /\ \A n \in team_game_stats' \ team_game_stats :
                  /\ n.game_id = last'.dest
                  /\ ~\E r \in team_game_stats :
                        r.game_id = n.game_id /\ r.team_id = n.team_id]_vars

\* a copy between two games that met a row at the destination, left it with
\* points different from the source row's, and added another row
C13_Witness ==
    /\ last.op = "copy_player_stats"
    /\ last.dest # last.src
    /\ last.returned > 0
    /\ last.conflicts > 0
    /\ \E s, t \in player_game_stats :
          /\ s.game_id = last.src
          /\ t.game_id = last.dest
          /\ s.player_id = t.player_id
          /\ s.points # t.points

----------------------------------------------------------------------------
(* seed_boxscores_nba: one game *)

\* dnp_reason of upsert_player_game_stats
DnpReason(stat) ==
    IF ParseMinutesToDecimal(stat.min) = Null /\ stat.comment # Null
    THEN stat.comment ELSE Null

\* upsert_player_game_stats over the rows of fetch_boxscore_v3, in order: the
\* possible <<database, inserted>> (the name query of the resolver may return
\* any matching player)
RECURSIVE UpsertPlayerGameStats(_, _, _, _)
UpsertPlayerGameStats(db, internal_game_id, stats, inserted) ==
    IF stats = <<>> THEN {<<db, inserted>>}
    ELSE LET stat == Head(stats)
             team == TeamMapGet(db.provider_id_map, stat.team_id)
         IN IF team = Null
            THEN UpsertPlayerGameStats(db, internal_game_id, Tail(stats), inserted)
            ELSE UNION {UpsertPlayerGameStats(
                            [o.db EXCEPT !.player_game_stats = UpsertBoxScoreSql(@,
                                [game_id |-> internal_game_id, player_id |-> o.ret,
                                 team_internal_id |-> team[1], points |-> stat.pts,
                                 dnp_reason |-> DnpReason(stat)])],
                            internal_game_id, Tail(stats), inserted + 1) :
                          o \in ResolvePlayerBox(db, stat.player_id, stat.player_name)}

\* SUM(points) over a set of rows: nulls are skipped
RECURSIVE SumPoints(_)
SumPoints(rows) ==
    IF rows = {} THEN 0
    ELSE LET r == CHOOSE x \in rows : TRUE
         IN (IF r.points = Null THEN 0 ELSE r.points[1]) + SumPoints(rows \ {r})

\* aggregate_team_stats_from_players without GROUP BY team_id: every team gets
\* the sum over the whole game
AggregateTeamStatsUngrouped(db, internal_game_id) ==
    LET counted == {r \in db.player_game_stats :
                      r.game_id = internal_game_id /\ r.dnp_reason = Null}
    IN {[internal_team_id |-> t, points |-> SumPoints(counted)] :
           t \in {r.team_id : r \in {x \in counted :
                    \E m \in db.provider_id_map :
                       /\ m.entity_type = "team" /\ m.provider = "nba"
                       /\ m.internal_id = x.team_id}}}

\* aggregate_team_stats_from_players: one entry per team that has a row with
\* dnp_reason IS NULL and a provider id in the team map
AggregateTeamStatsFromPlayers(db, internal_game_id) ==
    LET counted == {r \in db.player_game_stats :
                      r.game_id = internal_game_id /\ r.dnp_reason = Null}
    IN {[internal_team_id |-> t,
         points |-> SumPoints({r \in counted : r.team_id = t})] :
           t \in {r.team_id : r \in {x \in counted :
                    \E m \in db.provider_id_map :
                       /\ m.entity_type = "team" /\ m.provider = "nba"
                       /\ m.internal_id = x.team_id}}}

\* the insert into team_game_stats ... on conflict (game_id, team_id) do update
\* set points = excluded.points, ... (is_home is not in the update list)
UpsertTeamRow(rows, internal_game_id, st, is_home) ==
    IF \E r \in rows : r.game_id = internal_game_id /\ r.team_id = st.internal_team_id
    THEN {IF r.game_id = internal_game_id /\ r.team_id = st.internal_team_id
          THEN [r EXCEPT !.points = st.points] ELSE r : r \in rows}
    ELSE rows \cup {[game_id |-> internal_game_id, team_id |-> st.internal_team_id,
                     is_home |-> is_home, points |-> st.points]}

RECURSIVE UpsertTeamRows(_, _, _, _)
UpsertTeamRows(rows, internal_game_id, team_stats, home_team_id) ==
    IF team_stats = {} THEN rows
    ELSE LET st == CHOOSE x \in team_stats : TRUE
         IN UpsertTeamRows(
                UpsertTeamRow(rows, internal_game_id, st,
                              st.internal_team_id = home_team_id),
                internal_game_id, team_stats \ {st}, home_team_id)

\* upsert_team_game_stats: <<database, inserted>>
UpsertTeamGameStats(db, internal_game_id, team_stats) ==
    IF ~\E g \in db.games : g.game_id = internal_game_id THEN <<db, 0>>
    ELSE LET game_info == CHOOSE g \in db.games : g.game_id = internal_game_id
         IN <<[db EXCEPT !.team_game_stats =
                  UpsertTeamRows(@, internal_game_id, team_stats, game_info.home_team_id)],
              Cardinality(team_stats)>>

\* process_game with the aggregation read before the player rows are written
ProcessGameAggregateFirst(db, internal_game_id, raw_stats, failure) ==
    IF raw_stats = <<>>
    THEN {[db |-> db, ret |-> FALSE, raised |-> FALSE, aborted |-> FALSE,
           quarters |-> FALSE]}
    ELSE {IF up[2] = 0
          THEN [db |-> up[1], ret |-> FALSE, raised |-> FALSE, aborted |-> FALSE,
                quarters |-> FALSE]
          ELSE IF failure # "none"
          THEN [db |-> up[1], ret |-> FALSE, raised |-> TRUE,
                aborted |-> (failure = "db_error"), quarters |-> TRUE]
          ELSE LET team == UpsertTeamGameStats(up[1], internal_game_id,
                               AggregateTeamStatsFromPlayers(db, internal_game_id))
               IN [db |-> team[1], ret |-> (team[2] > 0), raised |-> FALSE,
                   aborted |-> FALSE, quarters |-> TRUE] :
            up \in UpsertPlayerGameStats(db, internal_game_id, raw_stats, 0)}

\* process_game: the possible results.  raw_stats = <<>> stands for a fetch that
\* returned None.  failure = "error": a statement after upsert_player_game_stats
\* raises an exception that leaves the transaction usable; "db_error": the
\* database rejects a statement there, which aborts the transaction.
ProcessGame(db, internal_game_id, raw_stats, failure) ==
    IF raw_stats = <<>>
    THEN {[db |-> db, ret |-> FALSE, raised |-> FALSE, aborted |-> FALSE,
           quarters |-> FALSE]}
    ELSE {IF up[2] = 0
          THEN [db |-> up[1], ret |-> FALSE, raised |-> FALSE, aborted |-> FALSE,
                quarters |-> FALSE]
          ELSE IF failure # "none"
          THEN [db |-> up[1], ret |-> FALSE, raised |-> TRUE,
                aborted |-> (failure = "db_error"), quarters |-> TRUE]
          ELSE LET team == UpsertTeamGameStats(up[1], internal_game_id,
                               AggregateTeamStatsFromPlayers(up[1], internal_game_id))
               IN [db |-> team[1], ret |-> (team[2] > 0), raised |-> FALSE,
                   aborted |-> FALSE, quarters |-> TRUE] :
            up \in UpsertPlayerGameStats(db, internal_game_id, raw_stats, 0)}

----------------------------------------------------------------------------
(* seed_boxscores_nba: a whole run *)

\* the NBA Stats ids get_games_to_process can pair with a Final game: from the
\* provider mapping, else the id itself for an NBA Stats game, else the matched
\* NBA Stats game of a BallDontLie game
NbaIdCandidates(db, g) ==
    LET mapped == {m.provider_id : m \in {x \in db.provider_id_map :
                      /\ x.entity_type = "game" /\ x.provider = "nba"
                      /\ x.internal_id = g.game_id}}
        matched == {n.game_id : n \in {x \in db.games : GamesMatch(x, g)}}
    IN IF mapped # {} THEN mapped
       ELSE IF g.game_id \in NbaGameIds THEN {g.game_id}
       ELSE matched

\* get_games_to_process: the possible results, each a set of
\* <<internal_game_id, nba_game_id>> with one pair per selected game
GetGamesToProcess(db, update_existing) ==
    LET final == {g \in db.games :
                    /\ g.status = Val("Final")
                    /\ NbaIdCandidates(db, g) # {}
                    /\ (update_existing \/
                          ~\E r \in db.player_game_stats : r.game_id = g.game_id)}
        ids == {g.game_id : g \in final}
        row(id) == CHOOSE g \in final : g.game_id = id
    IN {{<<id, f[id]>> : id \in ids} :
          f \in {h \in [ids -> NbaGameIds] :
                   \A id \in ids : h[id] \in NbaIdCandidates(db, row(id))}}

\* what main and process_game call for one game, in order: the box score fetch,
\* the quarter data fetch when player rows were written, and the sleep of the
\* rate limit unless the game is the last one
GameCalls(quarters, is_last) ==
    <<"fetch_boxscore_v3">>
        \o (IF quarters THEN <<"fetch_quarter_data">> ELSE <<>>)
        \o (IF is_last THEN <<>> ELSE <<"sleep">>)

\* the loop of main over the games: process_game, then commit.  A commit of an
\* aborted transaction rolls it back.  Each result has the database, the games
\* counted as successful and as failed, and the games whose processing raised.
RECURSIVE ProcessGames(_, _, _, _, _)
ProcessGames(db, selected, raw_stats, failure, acc) ==
    IF selected = {} THEN {[acc EXCEPT !.db = db]}
    ELSE LET pair == CHOOSE x \in selected : TRUE
         IN UNION {ProcessGames(
                      IF o.aborted THEN db ELSE o.db,
                      selected \ {pair}, raw_stats, failure,
                      [acc EXCEPT
                         !.successful = @ \cup (IF o.ret THEN {pair[1]} ELSE {}),
                         !.failed = @ \cup (IF o.ret THEN {} ELSE {pair[1]}),
                         !.raised = @ \cup (IF o.raised THEN {pair[1]} ELSE {}),
                         !.calls = @ \o GameCalls(o.quarters, selected = {pair})]) :
                   o \in ProcessGame(db, pair[1], raw_stats, failure)}

\* the PLAYER_ID values of the rows whose TEAM_ID is in the team map
MappedPlayerIds(rows, raw_stats) ==
    {raw_stats[i].player_id : i \in {j \in 1..Len(raw_stats) :
                                       TeamMapGet(rows, raw_stats[j].team_id) # Null}}

\* seed_boxscores_nba.main.  fetch_boxscore_v3 returns the rows NBA Stats serves,
\* or nothing when its attempts are used up (failure "no_data").
SeedBoxscoresRun(update_existing, dry_run, failure) ==
    \E selected \in GetGamesToProcess(CurrentDb, update_existing) :
        LET stops == selected = {} \/ dry_run
            fatal == ~stops /\ NoTeamMappings(provider_id_map)
            start == [db |-> CurrentDb, successful |-> {}, failed |-> {}, raised |-> {},
                      calls |-> <<>>]
            raw_stats == IF failure = "no_data" THEN <<>> ELSE nba_boxscore
        IN \E res \in (IF stops \/ fatal THEN {start}
                       ELSE ProcessGames(CurrentDb, selected, raw_stats,
                                         IF failure = "no_data" THEN "none" ELSE failure,
                                         start)) :
              /\ (stops \/ fatal) => failure = "none"
              /\ SetDb(res.db)
              /\ last' = [op |-> "seed_boxscores_run",
                          dry_run |-> dry_run,
                          selected |-> {p[1] : p \in selected},
                          exit_code |-> IF fatal THEN 1 ELSE 0,
                          fetched |-> IF stops \/ fatal THEN {} ELSE {p[2] : p \in selected},
                          processed |-> IF stops \/ fatal THEN {} ELSE {p[1] : p \in selected},
                          failure |-> failure,
                          successful |-> res.successful, failed |-> res.failed,
                          raised |-> res.raised, calls |-> res.calls,
                          fresh |-> (players = {} /\ player_game_stats = {}),
                          repeat |-> /\ last.op = "seed_boxscores_run"
                                     /\ last.processed # {}
                                     /\ last.processed = {p[1] : p \in selected}
                                     /\ last.failure = "none" /\ failure = "none"]
              /\ UNCHANGED <<minutes_io, nba_boxscore, proc>>

----------------------------------------------------------------------------
(* Specification: seed_boxscores_nba runs on one scheduled game *)

\* largest number of player rows of a V3 box score
MaxLines == 3

\* PLAYER_NAME of the i-th row: "a b", "b a", "a a", "b b", no two alike
BoxNameAt(i) ==
    <<IF i \in {1, 3} THEN "a" ELSE "b", " ", IF i \in {1, 4} THEN "b" ELSE "a">>

\* a row of fetch_boxscore_v3; a player who did not play has empty minutes,
\* a comment and no points
V3Line(i, team_id, name, pts, dnp) ==
    [team_id |-> team_id, player_id |-> PlayerAt(i), player_name |-> name,
     pts |-> pts,
     min |-> IF dnp THEN Val(<<>>) ELSE Val(<<"3", "2", ":", "3", "0">>),
     comment |-> IF dnp THEN Val("DNP") ELSE Null]

\* the rows tried at position i.  The first row is a home player who played.
\* The second is an away player who played, under his own name or under the
\* first player's, or a second home player who scored MaxPoints or did not
\* play.  A later row is a home player who did not play or an away player who
\* scored MaxPoints.
V3LineOptions(i) ==
    IF i = 1 THEN {V3Line(1, HomeTeamNba, BoxNameAt(1), p, FALSE) : p \in PointVals}
    ELSE IF i = 2
    THEN {V3Line(2, AwayTeamNba, BoxNameAt(2), p, FALSE) : p \in PointVals}
         \cup {V3Line(2, AwayTeamNba, BoxNameAt(1), Val(MaxPoints), FALSE),
               V3Line(2, HomeTeamNba, BoxNameAt(2), Val(MaxPoints), FALSE),
               V3Line(2, HomeTeamNba, BoxNameAt(2), Val(0), TRUE)}
    ELSE {V3Line(i, HomeTeamNba, BoxNameAt(i), Val(0), TRUE),
          V3Line(i, AwayTeamNba, BoxNameAt(i), Val(MaxPoints), FALSE)}

RECURSIVE V3Boxes(_)
V3Boxes(n) ==
    IF n = 0 THEN {<<>>}
    ELSE {Append(b, l) : b \in V3Boxes(n - 1), l \in V3LineOptions(n)}

BoxScoresV3 == UNION {V3Boxes(n) : n \in 0..MaxLines}

Failures == {"none", "no_data", "error", "db_error"}

\* a run that reaches process_game
WillFetch(update_existing, dry_run) ==
    /\ ~dry_run
    /\ ~NoTeamMappings(provider_id_map)
    /\ \E selected \in GetGamesToProcess(CurrentDb, update_existing) : selected # {}

InitBoxscores ==
    /\ games \in {{IncomingGame(gid, s, Null, Null) : gid \in GameIds} :
                     s \in {Val("Final"), Val("Scheduled")}}
    /\ player_game_stats = {}
    /\ team_game_stats = {}
    /\ players = {}
    /\ provider_id_map \in InitTeamMaps \cup {{}}
    /\ minutes_io = Null
    /\ nba_boxscore \in BoxScoresV3
    /\ proc = <<>>
    /\ last = [op |-> "none"]

NextBoxscores ==
    \E update_existing \in BOOLEAN, dry_run \in BOOLEAN :
        IF WillFetch(update_existing, dry_run)
        THEN \E failure \in Failures : SeedBoxscoresRun(update_existing, dry_run, failure)
        ELSE SeedBoxscoresRun(update_existing, dry_run, "none")

SpecBoxscores == InitBoxscores /\ [][NextBoxscores]_vars

\* the player_game_stats rows of a game
StatsOfGame(gid) == {r \in player_game_stats : r.game_id = gid}

\* C14: when seed_boxscores_nba processes a Final game starting from an empty
\* players table, player_game_stats ends with exactly one row of that game for
\* each distinct upstream player id of the box score whose team is mapped,
\* whatever the names of the players, shared names included.
C14_OneRowPerUpstreamPlayer ==
    (/\ last.op = "seed_boxscores_run"
     /\ last.fresh
     /\ last.failure = "none")
        => \A gid \in last.processed :
              Cardinality(StatsOfGame(gid))
                 = Cardinality(MappedPlayerIds(provider_id_map, nba_boxscore))

\* the player_game_stats rows of a game and team
StatsOfTeam(gid, team_id) == {r \in StatsOfGame(gid) : r.team_id = team_id}

C19_FailedGameRolledBack ==
    [][(/\ last'.op = "seed_boxscores_run"
        /\ last'.raised # {}
        /\ last'.raised = last'.processed)
          => /\ last'.raised \subseteq last'.failed
             /\ player_game_stats' = player_game_stats
             /\ team_game_stats' = team_game_stats
             /\ players' = players
             /\ provider_id_map' = provider_id_map]_vars

----------------------------------------------------------------------------
(* seed_games_nba: a whole run *)

\* normalize_player_stat over the rows NBA Stats serves, in order:
\* <<database, list of NormalizedPlayerStat>>, dnp_reason from COMMENT
RECURSIVE NormalizePlayerStats(_, _, _, _)
NormalizePlayerStats(db, gid, raw, acc) ==
    IF raw = <<>> THEN <<db, acc>>
    ELSE LET st == Head(raw)
             team == TeamMapGet(db.provider_id_map, st.team_id)
         IN IF team = Null THEN NormalizePlayerStats(db, gid, Tail(raw), acc)
            ELSE LET res == ResolvePlayerGames(db, st.player_id, st.player_name)
                 IN NormalizePlayerStats(res[1], gid, Tail(raw),
                        Append(acc, [game_id |-> gid, player_id |-> res[2],
                                     team_internal_id |-> team[1],
                                     points |-> st.pts, dnp_reason |-> DnpReason(st)]))

\* one iteration of `for raw_game in games_raw` as a function of the database:
\* <<database, outcome>>; normalize_game raises outside the try when a team of
\* the game has no mapping
SeedGamesIteration(db, gid, status, status_id, box, raises) ==
    LET g == IncomingGame(gid, status, Null, Null)
        mapped == /\ TeamMapGet(db.provider_id_map, HomeTeamNba) # Null
                  /\ TeamMapGet(db.provider_id_map, AwayTeamNba) # Null
        db1 == [db EXCEPT !.games = UpsertGameSql(@, g)]
        norm == NormalizePlayerStats(db1, gid, box, <<>>)
    IN IF ~mapped THEN <<db, "aborted">>
       ELSE IF status_id < 2 THEN <<db1, "committed">>
       ELSE IF raises THEN <<db, "rolled_back">>
       ELSE <<BoxscoreBatch(norm[1], norm[2], g), "committed">>

\* the loop over the games of the date range: <<database, exit status>>
RECURSIVE SeedGamesLoop(_, _, _, _, _, _)
SeedGamesLoop(db, gids, status, status_id, box, raises) ==
    IF gids = {} THEN <<db, 0>>
    ELSE LET gid == CHOOSE x \in gids : TRUE
             it == SeedGamesIteration(db, gid, status, status_id, box, raises)
         IN IF it[2] = "aborted" THEN <<it[1], 1>>
            ELSE SeedGamesLoop(it[1], gids \ {gid}, status, status_id, box, raises)

\* seed_games_nba.main over a date range whose scoreboard lists GameIds:
\* resolve_team_mapping raises before any fetch when no team is mapped
SeedGamesRun(status, status_id, raises) ==
    LET no_teams == NoTeamMappings(provider_id_map)
    IN \E res \in {IF no_teams THEN <<CurrentDb, 1>>
                   ELSE SeedGamesLoop(CurrentDb, GameIds, status, status_id,
                                      nba_boxscore, raises)} :
          /\ SetDb(res[1])
          /\ last' = [op |-> "seed_games_run", exit_code |-> res[2],
                      fetched |-> IF no_teams THEN {} ELSE GameIds,
                      input |-> <<status, status_id, raises>>,
                      repeat |-> /\ last.op = "seed_games_run"
                                 /\ last.input = <<status, status_id, raises>>]
          /\ UNCHANGED <<minutes_io, nba_boxscore, proc>>

----------------------------------------------------------------------------
(* daily-boxscore-seed: a whole run *)

\* the NBA Stats id of a game: the provider mapping, else the id itself when it
\* starts with 002
DailyNbaIds(db, game_id) ==
    LET mapped == {m.provider_id : m \in {x \in db.provider_id_map :
                      /\ x.entity_type = "game" /\ x.provider = "nba"
                      /\ x.internal_id = game_id}}
    IN IF mapped # {} THEN mapped
       ELSE IF game_id \in NbaGameIds THEN {game_id} ELSE {}

\* try_nba_stats_api: resolve_team_mapping raises inside the try when no team is
\* mapped, and the function returns False
TryNbaStatsApi(db, game_id, raw_stats, failure) ==
    IF DailyNbaIds(db, game_id) = {} \/ NoTeamMappings(db.provider_id_map)
    THEN {[db |-> db, ret |-> FALSE, raised |-> FALSE, aborted |-> FALSE,
           quarters |-> FALSE]}
    ELSE ProcessGame(db, game_id, raw_stats, failure)

\* process_game_with_fallbacks: the sources tried for a game.  The two scrapers
\* are separate programs; they are taken to store no row.
SourcesTried(db, game_id, recent, nba_ret) ==
    LET nba_stats == IF DailyNbaIds(db, game_id) = {}
                        \/ NoTeamMappings(db.provider_id_map)
                     THEN {} ELSE {"nba_stats"}
    IN IF recent
       THEN {"basketball_reference"} \cup nba_stats
            \cup (IF ~nba_ret /\ DailyNbaIds(db, game_id) # {} THEN {"nba_com"} ELSE {})
       ELSE nba_stats \cup (IF nba_ret THEN {} ELSE {"basketball_reference"})

\* the loop of main over the games: each result has the database, the games
\* that succeeded, the sources tried and whether the transaction was aborted
RECURSIVE DailyGames(_, _, _, _, _, _)
DailyGames(db, gids, raw_stats, recent, failure, acc) ==
    IF gids = {} THEN {[acc EXCEPT !.db = db]}
    ELSE LET gid == CHOOSE x \in gids : TRUE
         IN UNION {DailyGames(
                      o.db, gids \ {gid}, raw_stats, recent, failure,
                      [acc EXCEPT
                         !.successful = @ \cup (IF o.ret THEN {gid} ELSE {}),
                         !.sources = @ \cup SourcesTried(db, gid, recent, o.ret),
                         !.aborted = @ \/ o.aborted]) :
                   o \in TryNbaStatsApi(db, gid, raw_stats, failure)}

\* get_final_games_without_boxscores
FinalGamesWithoutBoxscores(db) ==
    {g.game_id : g \in {x \in db.games :
        /\ x.status = Val("Final")
        /\ ~\E r \in db.player_game_stats : r.game_id = x.game_id}}

\* daily-boxscore-seed.main: one connection, committed when main returns; the
\* commit of an aborted transaction rolls everything back
DailySeedRun(recent, failure) ==
    LET gids == FinalGamesWithoutBoxscores(CurrentDb)
        raw_stats == IF failure = "no_data" THEN <<>> ELSE nba_boxscore
        start == [db |-> CurrentDb, successful |-> {}, sources |-> {}, aborted |-> FALSE]
    IN \E res \in DailyGames(CurrentDb, gids, raw_stats, recent,
                             IF failure = "no_data" THEN "none" ELSE failure, start) :
          /\ gids = {} => (failure = "none" /\ ~recent)
          /\ SetDb(IF res.aborted THEN CurrentDb ELSE res.db)
          /\ last' = [op |-> "daily_seed_run", exit_code |-> 0,
                      fetched |-> IF res.sources = {} THEN {} ELSE gids,
                      sources |-> res.sources,
                      successful |-> res.successful]
          /\ UNCHANGED <<minutes_io, nba_boxscore, proc>>

----------------------------------------------------------------------------
(* Specification: the seed scripts run and run again on one game *)

\* the games stored before the runs: the NBA Stats game, Scheduled or Final,
\* and beside a Final one possibly the BallDontLie game of the same date and teams
InitSeedGames ==
    {{IncomingGame(gid, Val("Scheduled"), Null, Null) : gid \in GameIds}}
    \cup {{IncomingGame(gid, Val("Final"), Null, Null) : gid \in GameIds} \cup b :
             b \in {x \in InitBdlGames :
                      \A g \in x : /\ g.home_team_id = HomeTeam
                                   /\ g.start_date = GameDate}}

InitSeeds ==
    /\ games \in InitSeedGames
    /\ player_game_stats = {}
    /\ team_game_stats = {}
    /\ players = {}
    /\ provider_id_map \in {TeamMapRows, {}}
    /\ minutes_io = Null
    /\ nba_boxscore \in UNION {V3Boxes(n) : n \in 0..MaxStats}
    /\ proc = <<>>
    /\ last = [op |-> "none"]

NextSeeds ==
    \/ \E s \in {Val("Final"), Val("Scheduled")}, sid \in StatusIds, raises \in BOOLEAN :
          /\ sid < 2 => ~raises
          /\ SeedGamesRun(s, sid, raises)
    \/ NextBoxscores
    \/ \E dry_run \in BOOLEAN : CopyStatsRun(dry_run)
    \/ \E recent \in BOOLEAN, failure \in Failures : DailySeedRun(recent, failure)

SpecSeeds == InitSeeds /\ [][NextSeeds]_vars

\* the keys of the five tables
GameKeys(rows) == {r.game_id : r \in rows}

PlayerKeys(rows) == {r.player_id : r \in rows}

MapKeys(rows) == {<<r.entity_type, r.provider, r.provider_id>> : r \in rows}

PlayerStatKeys(rows) == {<<r.game_id, r.player_id>> : r \in rows}

TeamStatKeys(rows) == {<<r.game_id, r.team_id>> : r \in rows}

\* C16: a second run of seed_games_nba over the same dates, or of
\* seed_boxscores_nba over the same games (--update-existing), with NBA Stats
\* serving the same payloads, adds no row to games, players, provider_id_map,
\* player_game_stats or team_game_stats: the keys after it are the keys before.
C16_RerunAddsNoRow ==
    [][(/\ last'.op \in {"seed_games_run", "seed_boxscores_run"}
        /\ last'.repeat)
          => /\ GameKeys(games') = GameKeys(games)
             /\ PlayerKeys(players') = PlayerKeys(players)
             /\ MapKeys(provider_id_map') = MapKeys(provider_id_map)
             /\ PlayerStatKeys(player_game_stats') = PlayerStatKeys(player_game_stats)
             /\ TeamStatKeys(team_game_stats') = TeamStatKeys(team_game_stats)]_vars

\* seed_boxscores_nba has run again over a game it had filled with player and
\* team rows
C16_Witness ==
    /\ last.op = "seed_boxscores_run"
    /\ last.repeat
    /\ last.successful # {}
    /\ \A gid \in last.successful :
          /\ Cardinality(StatsOfGame(gid)) >= 2
          /\ \E t \in team_game_stats : t.game_id = gid

\* no row of the five tables is inserted, updated or deleted by the step
TablesUnchanged == UNCHANGED <<games, player_game_stats, team_game_stats, players,
                               provider_id_map>>

\* C17: a run of seed_boxscores_nba or of copy-stats-to-bdl-games with --dry-run
\* leaves the content of every table as it was, whatever games are selected.
C17_DryRunWritesNothing ==
    [][(/\ last'.op \in {"seed_boxscores_run", "copy_stats_run"}
        /\ last'.dry_run)
          => TablesUnchanged]_vars

\* a --dry-run of seed_boxscores_nba that selected a game, the team mappings
\* being present
C17_Witness ==
    /\ last.op = "seed_boxscores_run"
    /\ last.dry_run
    /\ last.selected # {}
    /\ ~NoTeamMappings(provider_id_map)

\* C18: when provider_id_map holds no team mapping of provider 'nba', a run of
\* seed_boxscores_nba, seed_games_nba or daily-boxscore-seed ends with a
\* non-zero exit status, invokes no upstream source for any game and writes no
\* row.
C18_NoTeamMapIsFatal ==
    [][(/\ NoTeamMappings(provider_id_map)
        /\ last'.op \in {"seed_boxscores_run", "seed_games_run", "daily_seed_run"})
          => /\ last'.exit_code # 0
             /\ last'.fetched = {}
             /\ TablesUnchanged]_vars

----------------------------------------------------------------------------
(* seed_games_nba: a run over a range of dates *)

\* most games a scoreboard of the run lists for one date
MaxDayGames == 2

\* an NBA Stats team id that resolve_team_mapping does not return
UnmappedTeamNba == "1610612752"

\* a second game listed on the first date
SameDayGameId == "0022500003"

\* a ScoreboardGameHeader of a game that has not started (GAME_STATUS_ID 1)
ScoreboardHeader(gid, home, visitor) ==
    [game_id |-> gid, home_team_id |-> home, visitor_team_id |-> visitor,
     game_status_id |-> 1, game_status_text |-> Val("Scheduled")]

\* normalize_game raises when a team of the header is not in the team map
CanNormalize(rows, raw) ==
    /\ TeamMapGet(rows, raw.home_team_id) # Null
    /\ TeamMapGet(rows, raw.visitor_team_id) # Null

\* normalize_game: the row the NormalizedGame is written as
NormalizeGame(rows, raw, day) ==
    [game_id |-> raw.game_id, start_date |-> day, status |-> raw.game_status_text,
     home_team_id |-> TeamMapGet(rows, raw.home_team_id)[1],
     away_team_id |-> TeamMapGet(rows, raw.visitor_team_id)[1],
     home_score |-> Null, away_score |-> Null]

\* `for raw_game in games_raw`: normalize_game outside the try, then the unit
\* begin / upsert_game / (box score when GAME_STATUS_ID >= 2) / commit.  acc has
\* the database, the games upserted and whether an exception left the loop.
RECURSIVE SeedDayGames(_, _, _, _)
SeedDayGames(acc, games_raw, day, box) ==
    IF games_raw = <<>> THEN acc
    ELSE LET raw == Head(games_raw)
         IN IF ~CanNormalize(acc.db.provider_id_map, raw)
            THEN [acc EXCEPT !.raised = TRUE]
            ELSE LET g == NormalizeGame(acc.db.provider_id_map, raw, day)
                     db1 == [acc.db EXCEPT !.games = UpsertGameSql(@, g)]
                     norm == NormalizePlayerStats(db1, raw.game_id, box, <<>>)
                     db2 == IF raw.game_status_id >= 2
                            THEN BoxscoreBatch(norm[1], norm[2], g) ELSE db1
                 IN SeedDayGames([acc EXCEPT !.db = db2,
                                             !.upserted = @ \cup {raw.game_id}],
                                 Tail(games_raw), day, box)

\* `for day in daterange(start_dt, end_dt)`: fetch_games_for_date is called
\* outside any try; a day has raises when the scoreboard request fails, else
\* the headers it lists
RECURSIVE SeedDays(_, _, _, _)
SeedDays(acc, days, i, box) ==
    IF i > Len(days) THEN acc
    ELSE IF days[i].raises THEN [acc EXCEPT !.raised = TRUE]
    ELSE LET after == SeedDayGames(acc, days[i].headers,
                                   IF i = 1 THEN GameDate ELSE NextDate, box)
         IN IF after.raised THEN after ELSE SeedDays(after, days, i + 1, box)

\* the games of the schedule whose two teams are mapped, on days whose
\* scoreboard was served
MappedGames(rows, days) ==
    UNION {{days[i].headers[j].game_id : j \in {k \in 1..Len(days[i].headers) :
                                          CanNormalize(rows, days[i].headers[k])}} :
             i \in {d \in 1..Len(days) : ~days[d].raises}}

\* the games of the schedule with a team that is not mapped
UnmappedGames(rows, days) ==
    UNION {{days[i].headers[j].game_id : j \in {k \in 1..Len(days[i].headers) :
                                          ~CanNormalize(rows, days[i].headers[k])}} :
             i \in {d \in 1..Len(days) : ~days[d].raises}}

\* seed_games_nba.main: an exception that leaves main ends the process with
\* status 1 in the __main__ handler
SeedGamesRange(days) ==
    LET start == [db |-> CurrentDb, upserted |-> {}, raised |-> FALSE]
    IN \E res \in {IF NoTeamMappings(provider_id_map)
                   THEN [start EXCEPT !.raised = TRUE]
                   ELSE SeedDays(start, days, 1, nba_boxscore)} :
          /\ SetDb(res.db)
          /\ last' = [op |-> "seed_games_range",
                      exit_code |-> IF res.raised THEN 1 ELSE 0,
                      upserted |-> res.upserted,
                      mapped |-> MappedGames(provider_id_map, days),
                      unmapped |-> UnmappedGames(provider_id_map, days),
                      failed_days |-> {d \in 1..Len(days) : days[d].raises}]
          /\ UNCHANGED <<minutes_io, nba_boxscore, proc>>

----------------------------------------------------------------------------
(* Specification: seed_games_nba over two dates *)

\* the headers a scoreboard of the first date can list, and of the second
FirstDayHeaders ==
    {ScoreboardHeader(gid, HomeTeamNba, v) :
        gid \in GameIds \cup {SameDayGameId}, v \in {AwayTeamNba, UnmappedTeamNba}}

SecondDayHeaders ==
    {ScoreboardHeader(LaterGameId, HomeTeamNba, v) : v \in {AwayTeamNba, UnmappedTeamNba}}

\* the lists of up to n headers, no game listed twice
RECURSIVE HeaderLists(_, _)
HeaderLists(headers, n) ==
    IF n = 0 THEN {<<>>}
    ELSE LET shorter == HeaderLists(headers, n - 1)
         IN shorter \cup {Append(l, h) : l \in shorter, h \in headers}

DayLists(headers) ==
    {l \in HeaderLists(headers, MaxDayGames) :
        \A i, j \in 1..Len(l) : i # j => l[i].game_id # l[j].game_id}

\* what the scoreboard request of a day does: it raises, or lists headers
DayOutcomes(headers) ==
    {[raises |-> TRUE, headers |-> <<>>]}
    \cup {[raises |-> FALSE, headers |-> l] : l \in DayLists(headers)}

\* a date range of two days
DateRanges ==
    {<<d1, d2>> : d1 \in DayOutcomes(FirstDayHeaders), d2 \in DayOutcomes(SecondDayHeaders)}

InitSeedRange ==
    /\ games \in {{}, {IncomingGame(gid, Val("Final"), Null, Null) : gid \in GameIds}}
    /\ player_game_stats = {}
    /\ team_game_stats = {}
    /\ players = {}
    /\ provider_id_map \in InitTeamMaps \cup {{}}
    /\ minutes_io = Null
    /\ nba_boxscore = <<>>
    /\ proc = <<>>
    /\ last = [op |-> "none"]

NextSeedRange == \E days \in DateRanges : SeedGamesRange(days)

SpecSeedRange == InitSeedRange /\ [][NextSeedRange]_vars

\* C21: in seed_games_nba a scheduled game with a team missing from the team
\* mapping is skipped alone: the run does not abort and every other game of the
\* same date and of the later dates is upserted.
C21_UnmappedGameSkippedAlone ==
    (/\ last.op = "seed_games_range"
     /\ last.failed_days = {}
     /\ last.unmapped # {}
     /\ ~NoTeamMappings(provider_id_map))
        => /\ last.exit_code = 0
           /\ last.mapped \subseteq last.upserted

\* C22: in seed_games_nba a date whose schedule fetch raises is skipped: games
\* of dates already processed stay committed and the later dates of the range
\* are still processed.
C22_FailedDateSkipped ==
    (/\ last.op = "seed_games_range"
     /\ last.failed_days # {}
     /\ last.unmapped = {}
     /\ ~NoTeamMappings(provider_id_map))
        => /\ last.mapped \subseteq last.upserted
           /\ \A gid \in last.mapped : GameExists(gid)

\* ---------------------------------------------------------------------------
\* seed_boxscores_nba: fetch_boxscore_v3 and fetch_quarter_data, call by call
\* ---------------------------------------------------------------------------

MAX_RETRIES == 3

FetchFunctions == {"fetch_boxscore_v3", "fetch_quarter_data"}

\* what one request to the endpoint does: raise, or answer with or without rows
CallOutcomes == {"raises", "empty", "rows"}

ShouldRetryOnEqual(retry_count) == retry_count <= MAX_RETRIES

\* the except branch: retry_count < MAX_RETRIES
ShouldRetry(retry_count) == retry_count < MAX_RETRIES

\* the value a request that did not raise makes the function return
FetchReturn(fn, outcome, box) ==
    IF fn = "fetch_boxscore_v3"
    THEN IF outcome = "empty" \/ Len(box) = 0 THEN "None" ELSE "all_players"
    ELSE IF outcome = "empty" THEN "None" ELSE "line_score"

StartFetch(fn) ==
    [fn |-> fn, pc |-> "call", retry_count |-> 0, log |-> <<>>,
     all_raised |-> TRUE, result |-> ""]

\* the try block: one request to the endpoint, and what follows it without a sleep
FetchCall(outcome) ==
    /\ DOMAIN proc = {"fetch"}
    /\ proc.fetch.pc = "call"
    /\ LET f == proc.fetch
           logged == [f EXCEPT !.log = Append(@, "call")]
       IN  proc' = [proc EXCEPT !.fetch =
               IF outcome = "raises"
               THEN IF ShouldRetry(f.retry_count)
                    THEN [logged EXCEPT !.pc = "sleep"]
                    ELSE [logged EXCEPT !.pc = "done", !.result = "None"]
               ELSE [logged EXCEPT !.pc = "done", !.all_raised = FALSE,
                                   !.result = FetchReturn(f.fn, outcome, nba_boxscore)]]
    /\ last' = [op |-> "fetch_call"]
    /\ UNCHANGED <<games, player_game_stats, team_game_stats, players, provider_id_map,
                   minutes_io, nba_boxscore>>

\* time.sleep(RETRY_DELAY_MS / 1000), then the recursive call with retry_count + 1
FetchSleep ==
    /\ DOMAIN proc = {"fetch"}
    /\ proc.fetch.pc = "sleep"
    /\ proc' = [proc EXCEPT !.fetch.log = Append(@, "sleep"),
                            !.fetch.retry_count = @ + 1,
                            !.fetch.pc = "call"]
    /\ last' = [op |-> "fetch_sleep"]
    /\ UNCHANGED <<games, player_game_stats, team_game_stats, players, provider_id_map,
                   minutes_io, nba_boxscore>>

InitFetch ==
    /\ games = {}
    /\ player_game_stats = {}
    /\ team_game_stats = {}
    /\ players = {}
    /\ provider_id_map = {}
    /\ minutes_io = <<>>
    /\ nba_boxscore \in BoxScoresV3
    /\ proc \in {[fetch |-> StartFetch(fn)] : fn \in FetchFunctions}
    /\ last = [op |-> "init"]

NextFetch ==
    \/ \E outcome \in CallOutcomes : FetchCall(outcome)
    \/ FetchSleep

SpecFetch == InitFetch /\ [][NextFetch]_vars

\* the interpreter runs the function to its return: no step of it waits for ever
SpecFetchFair == SpecFetch /\ WF_vars(NextFetch)

CallsMade(log) == Cardinality({i \in 1..Len(log) : log[i] = "call"})

\* every request after the first comes right after a sleep
RetriesFollowSleeps(log) ==
    \A i \in 1..Len(log) : (log[i] = "call" /\ i > 1) => log[i - 1] = "sleep"

FetchGivesUp ==
    /\ DOMAIN proc = {"fetch"}
    /\ proc.fetch.all_raised
    /\ proc.fetch.pc = "done"

\* C23: when every request raises, fetch_boxscore_v3 and fetch_quarter_data make
\* the first request and at most MAX_RETRIES more, sleep before each retry, and
\* then return None; the function always reaches its return.
C23_FetchGivesUpAfterRetries ==
    /\ [](/\ CallsMade(proc.fetch.log) <= 1 + MAX_RETRIES
          /\ RetriesFollowSleeps(proc.fetch.log)
          /\ FetchGivesUp => /\ proc.fetch.result = "None"
                             /\ CallsMade(proc.fetch.log) = 1 + MAX_RETRIES)
    /\ <>(proc.fetch.pc = "done")

C23_Witness ==
    /\ FetchGivesUp
    /\ proc.fetch.retry_count = MAX_RETRIES
    /\ proc.fetch.result = "None"

\* C24: in a run of seed_boxscores_nba a sleep separates any two successive calls
\* of fetch_boxscore_v3 or fetch_quarter_data, of one game or of games that
\* follow each other.
C24_SleepBetweenUpstreamCalls ==
    last.op = "seed_boxscores_run" =>
        \A i \in 1..(Len(last.calls) - 1) :
            last.calls[i] # "sleep" => last.calls[i + 1] = "sleep"

\* ---------------------------------------------------------------------------
\* daily-boxscore-seed and daily-boxscore-seed-simple: the sources of one game,
\* source by source
\* ---------------------------------------------------------------------------

Scrapers == {"basketball_reference", "nba_com"}

\* what a scraper subprocess does: exit 0 after storing rows, exit 0 without
\* storing any, or fail (non-zero exit, timeout, npx missing)
ScraperOutcomes == {"stored", "nothing", "failed"}

BranchSourcesStatsFirst(script, recent, skip_bbref) ==
    <<"nba_stats", "basketball_reference", "nba_com">>

\* the sources in the order the script tries them.  process_game_with_fallbacks
\* takes the first branch when hours_since_game < 4, that is when game_date is
\* today; the simple script has no NBA.com scraper and may skip the first source.
BranchSources(script, recent, skip_bbref) ==
    IF script = "simple"
    THEN IF skip_bbref THEN <<"nba_stats">>
         ELSE <<"basketball_reference", "nba_stats">>
    ELSE IF recent THEN <<"basketball_reference", "nba_stats", "nba_com">>
    ELSE <<"nba_stats", "basketball_reference">>

\* the row a scraper leaves in player_game_stats when it stores a box score
ScraperRows(gid) ==
    {[game_id |-> gid, player_id |-> PlayerAt(1), team_internal_id |-> HomeTeam,
      points |-> Val(0), dnp_reason |-> Null]}

\* the subprocess of a scraper commits its rows on a connection of its own
ScraperStores(db, gid, outcome) ==
    IF outcome = "stored" /\ ~\E r \in db.player_game_stats : r.game_id = gid
    THEN [db EXCEPT !.player_game_stats = @ \cup ScraperRows(gid)]
    ELSE db

\* try_basketball_reference, try_nba_com_scraping: whether a subprocess is
\* started, the database after it and the value returned.  The daily script
\* counts the rows of the game on its own connection, which raises once the
\* transaction is aborted; the simple script reads the scraper's output.
\* try_nba_com_scraping returns False at once for a game without NBA Stats id.
TryScraper(script, source, db, gid, outcome, aborted) ==
    IF source = "nba_com" /\ DailyNbaIds(db, gid) = {}
    THEN [db |-> db, started |-> FALSE, ret |-> FALSE, aborted |-> aborted]
    ELSE LET after == ScraperStores(db, gid, outcome)
         IN [db |-> after, started |-> TRUE, aborted |-> aborted,
             ret |-> IF script = "simple" THEN outcome = "stored"
                     ELSE /\ outcome # "failed"
                          /\ ~aborted
                          /\ \E r \in after.player_game_stats : r.game_id = gid]

\* the simple script calls try_nba_stats_api only for a game with NBA Stats id
\* and gives it a connection of its own, closed (and committed or rolled back)
\* when the call returns
TryNbaStats(script, db, gid, raw_stats, failure, aborted) ==
    IF script = "simple" /\ DailyNbaIds(db, gid) = {}
    THEN {[db |-> db, started |-> FALSE, ret |-> FALSE, aborted |-> aborted]}
    ELSE {[db |-> IF o.aborted THEN db ELSE o.db,
           started |-> DailyNbaIds(db, gid) # {},
           ret |-> o.ret,
           aborted |-> aborted \/ (script = "daily" /\ o.aborted)] :
            o \in TryNbaStatsApi(db, gid, raw_stats, failure)}

StartFallbacks(script, gid, recent, skip_bbref) ==
    [script |-> script, game_id |-> gid, recent |-> recent, skip_bbref |-> skip_bbref,
     tried |-> <<>>, aborted |-> FALSE, pc |-> "try", ret |-> <<FALSE, "pending">>]

\* one step of process_game_with_fallbacks (of the loop body of the simple
\* script): the next source of the branch is tried; the function returns
\* (True, source) when it succeeded and (False, 'none') after the last one failed
TrySource(outcome, failure) ==
    /\ DOMAIN proc = {"fallbacks"}
    /\ proc.fallbacks.pc = "try"
    /\ LET f == proc.fallbacks
           branch == BranchSources(f.script, f.recent, f.skip_bbref)
           source == branch[Len(f.tried) + 1]
           raw_stats == IF failure = "no_data" THEN <<>> ELSE nba_boxscore
           results ==
               IF source \in Scrapers
               THEN {TryScraper(f.script, source, CurrentDb, f.game_id, outcome, f.aborted)}
               ELSE TryNbaStats(f.script, CurrentDb, f.game_id, raw_stats,
                                IF failure = "no_data" THEN "none" ELSE failure,
                                f.aborted)
       IN /\ source \in Scrapers => failure = "none"
          /\ source \notin Scrapers => outcome = "nothing"
          /\ \E o \in results :
                LET tried == Append(f.tried, [source |-> source, started |-> o.started,
                                              ret |-> o.ret])
                IN /\ SetDb(o.db)
                   /\ proc' = [proc EXCEPT !.fallbacks =
                         [f EXCEPT !.tried = tried,
                                   !.aborted = o.aborted,
                                   !.pc = IF o.ret \/ Len(tried) = Len(branch)
                                          THEN "returned" ELSE "try",
                                   !.ret = IF o.ret THEN <<TRUE, source>>
                                           ELSE IF Len(tried) = Len(branch)
                                           THEN <<FALSE, "none">>
                                           ELSE @]]
    /\ last' = [op |-> "try_source"]
    /\ UNCHANGED <<minutes_io, nba_boxscore>>

InitFallbacks ==
    /\ games \in InitSeedGames
    /\ player_game_stats = {}
    /\ team_game_stats = {}
    /\ players = {}
    /\ provider_id_map \in {TeamMapRows, {}}
    /\ minutes_io = Null
    /\ nba_boxscore \in UNION {V3Boxes(n) : n \in 0..MaxStats}
    /\ proc \in {[fallbacks |-> StartFallbacks(script, gid, recent, skip_bbref)] :
                    script \in {"daily", "simple"},
                    gid \in FinalGamesWithoutBoxscores(CurrentDb),
                    recent \in BOOLEAN, skip_bbref \in BOOLEAN}
    /\ proc.fallbacks.script = "daily" => ~proc.fallbacks.skip_bbref
    /\ proc.fallbacks.script = "simple" => ~proc.fallbacks.recent
    /\ last = [op |-> "none"]

NextFallbacks ==
    \E outcome \in ScraperOutcomes, failure \in Failures : TrySource(outcome, failure)

SpecFallbacks == InitFallbacks /\ [][NextFallbacks]_vars

\* C25: a scraper subprocess is started for a game only after the NBA Stats API
\* was tried for that game and returned no data.
C25_ScrapersOnlyAfterNbaStats ==
    DOMAIN proc = {"fallbacks"} =>
        LET tried == proc.fallbacks.tried
        IN \A i \in 1..Len(tried) :
              (tried[i].source \in Scrapers /\ tried[i].started) =>
                  \E j \in 1..(i - 1) : /\ tried[j].source = "nba_stats"
                                        /\ tried[j].started
                                        /\ ~tried[j].ret

DateArgs == {Null, Val(GameDate), Val(NextDate)}

\* a <= b on the dates of the model
DateLeq(a, b) == a = b \/ (a = GameDate /\ b = NextDate)

\* AND start_time::date >= %s::date AND start_time::date <= %s::date, each
\* appended only when the argument is given; start_time::date is the date the
\* row was seeded for
InDateRange(r, start_date, end_date) ==
    /\ start_date # Null => DateLeq(start_date[1], r.start_date)
    /\ end_date # Null => DateLeq(r.start_date, end_date[1])

\* update_game_statuses: the UPDATE; a null status fails status != 'Final'
UpdateGameStatusesSql(rows, start_date, end_date) ==
    {IF /\ r.home_score # Null /\ r.away_score # Null
        /\ r.status # Null /\ r.status # Val("Final")
        /\ r.game_id \in NbaGameIds
        /\ InDateRange(r, start_date, end_date)
     THEN [r EXCEPT !.status = Val("Final")]
     ELSE r : r \in rows}

UpdateGameStatuses(start_date, end_date) ==
    /\ games' = UpdateGameStatusesSql(games, start_date, end_date)
    /\ last' = [op |-> "update_game_statuses"]
    /\ UNCHANGED <<player_game_stats, team_game_stats, players, provider_id_map,
                   minutes_io, nba_boxscore, proc>>

\* SUM(points) of a group: null when every row of the group has null points
SqlSumPoints(rows) ==
    IF \A r \in rows : r.points = Null THEN Null ELSE Val(SumPoints(rows))

\* the rows of one group of GROUP BY game_id, team_id
TotalsGroup(pgs, gid, team_id) == {r \in pgs : r.game_id = gid /\ r.team_id = team_id}

\* update_scores_from_stats: the UPDATE ... FROM home_totals, away_totals.  A
\* game is joined when it lacks a score and both of its teams have a group.
UpdateScoresFromStatsSql(rows, pgs, start_date, end_date) ==
    {IF /\ r.game_id \in NbaGameIds
        /\ (r.home_score = Null \/ r.away_score = Null)
        /\ TotalsGroup(pgs, r.game_id, r.home_team_id) # {}
        /\ TotalsGroup(pgs, r.game_id, r.away_team_id) # {}
        /\ InDateRange(r, start_date, end_date)
     THEN [r EXCEPT
             !.home_score = SqlSumPoints(TotalsGroup(pgs, r.game_id, r.home_team_id)),
             !.away_score = SqlSumPoints(TotalsGroup(pgs, r.game_id, r.away_team_id)),
             !.status = Val("Final")]
     ELSE r : r \in rows}

UpdateScoresFromStats(start_date, end_date) ==
    /\ games' = UpdateScoresFromStatsSql(games, player_game_stats, start_date, end_date)
    /\ last' = [op |-> "update_scores_from_stats"]
    /\ UNCHANGED <<player_game_stats, team_game_stats, players, provider_id_map,
                   minutes_io, nba_boxscore, proc>>

\* one games table and the player rows of its game: none, or one row of a home
\* player and of an away player
InitScoreUpdates ==
    /\ games \in InitGames
    /\ player_game_stats \in
          {h \cup a : h \in UNION {PlayerStatRows(gid, 1, ScoreVals) : gid \in GameIds},
                      a \in UNION {PlayerStatRows(gid, 2, ScoreVals) : gid \in GameIds}}
    /\ team_game_stats = {}
    /\ players = {}
    /\ provider_id_map = TeamMapRows
    /\ minutes_io = Null
    /\ nba_boxscore = <<>>
    /\ proc = <<>>
    /\ last = [op |-> "none"]

NextScoreUpdates ==
    \/ \E gid \in GameIds, s \in StatusVals, hs \in ScoreVals, as \in ScoreVals :
          UpsertGame(gid, s, hs, as)
    \/ \E start_date \in DateArgs, end_date \in DateArgs :
          UpdateGameStatuses(start_date, end_date)
    \/ \E start_date \in DateArgs, end_date \in DateArgs :
          UpdateScoresFromStats(start_date, end_date)

SpecScoreUpdates == InitScoreUpdates /\ [][NextScoreUpdates]_vars

\* C26: under upsert_game, update_game_statuses and update_scores_from_stats a
\* game stored as 'Postponed' or 'Cancelled' keeps that status.
C26_PostponedCancelledTerminal ==
    [][\A g \in games :
         g.status \in {Val("Postponed"), Val("Cancelled")} =>
             \E r \in games' : r.game_id = g.game_id /\ r.status = g.status]_vars

\* C28: update_scores_from_stats leaves every non-null home_score and away_score
\* as it was, and leaves a game with both scores non-null unmodified.
C28_OnlyMissingScoresFilled ==
    [][last'.op = "update_scores_from_stats" =>
         \A g \in games :
            \E r \in games' :
               /\ r.game_id = g.game_id
               /\ g.home_score # Null => r.home_score = g.home_score
               /\ g.away_score # Null => r.away_score = g.away_score
               /\ (g.home_score # Null /\ g.away_score # Null) => r = g]_vars

\* C27: for an existing row, upsert_game replaces the status by the incoming
\* one when the stored status is null or outside the known set, or when it is
\* 'Scheduled' or 'InProgress' and the incoming one is 'Final'; in every other
\* case the stored status stays.
C27_StatusChangeCases ==
    [][last'.op = "upsert_game" =>
         \A g \in games :
            g.game_id = last'.game_id =>
               LET incoming == last'.status
                   takes == \/ g.status = Null
                            \/ g.status[1] \notin {"Final", "Scheduled", "InProgress",
                                                   "Postponed", "Cancelled"}
                            \/ /\ g.status \in {Val("Scheduled"), Val("InProgress")}
                               /\ incoming = Val("Final")
               IN GameRow(g.game_id)'.status = IF takes THEN incoming ELSE g.status]_vars

C27_Witness ==
    /\ last.op = "upsert_game"
    /\ last.status = Val("InProgress")
    /\ GameRow(last.game_id).status = Val("Scheduled")

\* ---------------------------------------------------------------------------
\* seed_boxscores_nba.resolve_player_internal_id in two invocations at once
\* ---------------------------------------------------------------------------

Invocations == {1, 2}

StartResolve(provider_player_id, player_name) ==
    [pc |-> "lookup", provider_player_id |-> provider_player_id,
     player_name |-> player_name, row |-> Null, existing_id |-> Null, ret |-> Null]

\* the first query: select internal_id from provider_id_map ... limit 1
ResolveLookup(i) ==
    /\ proc[i].pc = "lookup"
    /\ LET row == LookupMap(provider_id_map, "player", "nba", proc[i].provider_player_id)
       IN proc' = [proc EXCEPT ![i].row = row,
                               ![i].pc = IF row # Null THEN "check" ELSE "name"]
    /\ last' = [op |-> "resolve_lookup", invocation |-> i]
    /\ UNCHANGED <<games, player_game_stats, team_game_stats, players, provider_id_map,
                   minutes_io, nba_boxscore>>

\* "Verify player actually exists": return internal_id, or fall through
ResolveCheck(i) ==
    /\ proc[i].pc = "check"
    /\ proc' = IF PlayerCheck(players, proc[i].row[1])
               THEN [proc EXCEPT ![i].ret = proc[i].row, ![i].pc = "done"]
               ELSE [proc EXCEPT ![i].pc = "name"]
    /\ last' = [op |-> "resolve_check", invocation |-> i]
    /\ UNCHANGED <<games, player_game_stats, team_game_stats, players, provider_id_map,
                   minutes_io, nba_boxscore>>

\* the name query: limit 1 without order by returns any matching row
ResolveName(i) ==
    /\ proc[i].pc = "name"
    /\ LET existing == NameCandidates(players, proc[i].player_name)
       IN IF existing = {}
          THEN proc' = [proc EXCEPT ![i].pc = "create"]
          ELSE \E r \in existing :
                  proc' = [proc EXCEPT ![i].existing_id = Val(r.player_id),
                                       ![i].pc = "link"]
    /\ last' = [op |-> "resolve_name", invocation |-> i]
    /\ UNCHANGED <<games, player_game_stats, team_game_stats, players, provider_id_map,
                   minutes_io, nba_boxscore>>

\* the inserts of one invocation and its return.  Each script runs the function
\* inside the transaction of its game: the other invocation sees the rows at the
\* commit, both inserts of the create path together, and an insert that meets a
\* row of the other's open transaction waits for that commit and then takes the
\* on conflict branch.  The step is the point where the inserts take effect.
ResolveWrite(i) ==
    /\ proc[i].pc \in {"link", "create"}
    /\ IF proc[i].pc = "link"
       THEN /\ SetDb(LinkExisting(CurrentDb, proc[i].provider_player_id,
                                  proc[i].existing_id[1]))
            /\ proc' = [proc EXCEPT ![i].ret = proc[i].existing_id, ![i].pc = "done"]
       ELSE /\ SetDb(CreatePlayer(CurrentDb, proc[i].provider_player_id,
                                  proc[i].player_name))
            /\ proc' = [proc EXCEPT ![i].ret = Val(proc[i].provider_player_id),
                                    ![i].pc = "done"]
    /\ last' = [op |-> "resolve_write", invocation |-> i]
    /\ UNCHANGED <<minutes_io, nba_boxscore>>

\* two invocations resolve the same NBA Stats player id, which has no mapping yet
InitRace ==
    /\ games = {}
    /\ player_game_stats = {}
    /\ team_game_stats = {}
    /\ players \in InitPlayers
    /\ provider_id_map = {}
    /\ minutes_io = Null
    /\ nba_boxscore = <<>>
    /\ proc \in {[i \in Invocations |-> StartResolve(pid, name)] :
                    pid \in ProviderPlayerIds, name \in Names}
    /\ last = [op |-> "none"]

NextRace ==
    \E i \in Invocations :
        \/ ResolveLookup(i)
        \/ ResolveCheck(i)
        \/ ResolveName(i)
        \/ ResolveWrite(i)

SpecRace == InitRace /\ [][NextRace]_vars

BothReturned == \A i \in Invocations : proc[i].pc = "done"

\* the provider_id_map rows of the player id the invocations resolve
RaceMappings ==
    {m \in provider_id_map : /\ m.entity_type = "player" /\ m.provider = "nba"
                             /\ m.provider_id = proc[1].provider_player_id}

\* C29: when both invocations have returned, provider_id_map has exactly one row
\* for the player id, at most one players row is new, and both returned the
\* internal id of that mapping row.
C29_RaceEndsConsistent ==
    BothReturned =>
        /\ Cardinality(RaceMappings) = 1
        /\ Cardinality({r \in players : r.player_id \notin InitPlayerIds}) <= 1
        /\ \A i \in Invocations : \A m \in RaceMappings : proc[i].ret = Val(m.internal_id)

====
